---- MODULE Spec2Model ----
(***************************************************************************)
(* A model of MathParser::evaluate_expression (src/src/MathParser.cpp):    *)
(* the normalizer, the regular-expression validator and tokenizer, the     *)
(* operator registry, Operator::eval and the shunting-yard loop.           *)
(*                                                                         *)
(* An expression is a sequence of characters; a character is written as a  *)
(* one-character string ("VT" stands for the vertical tab, which has no    *)
(* escape in TLA+).  Positions in the model are 1-based; the positions the *)
(* program reports (error_position) are 0-based and are stored 0-based in  *)
(* result.                                                                 *)
(***************************************************************************)
EXTENDS Integers, Sequences, FiniteSets, TLC

(***************************************************************************)
(* Characters                                                              *)
(***************************************************************************)
Digits == <<"0", "1", "2", "3", "4", "5", "6", "7", "8", "9">>

DigitSet == {Digits[i] : i \in 1..Len(Digits)}

UpperCase == <<"A", "B", "C", "D", "E", "F", "G", "H", "I", "J", "K", "L", "M",
               "N", "O", "P", "Q", "R", "S", "T", "U", "V", "W", "X", "Y", "Z">>

LowerCase == <<"a", "b", "c", "d", "e", "f", "g", "h", "i", "j", "k", "l", "m",
               "n", "o", "p", "q", "r", "s", "t", "u", "v", "w", "x", "y", "z">>

\* The characters the class \s of std::regex matches in the "C" locale.
WhiteSpace == {" ", "\f", "\n", "\r", "\t", "VT"}

OperatorChars == {"(", ")", "+", "-", "*", "/", "^", "%", "x"}

\* The keyword alternatives of the patterns, in the order the patterns try them.
Keywords == << <<"c", "o", "s">>, <<"s", "i", "n">>, <<"t", "a", "n">>,
               <<"c", "o", "t">>, <<"c", "s", "c">>, <<"s", "e", "c">>,
               <<"e">>, <<"p", "i">>, <<"t", "a", "u">> >>

\* a whitespace class without the form feed and the vertical tab
IsSpace_Narrow(c) == c \in {" ", "\n", "\r", "\t"}

IsSpace(c) == c \in WhiteSpace

IsDigit(c) == c \in DigitSet

DigitValue(c) == (CHOOSE i \in 1..Len(Digits) : Digits[i] = c) - 1

\* The character at position i of s, or "" past either end.
At(s, i) == IF i \in 1..Len(s) THEN s[i] ELSE ""

(***************************************************************************)
(* Normalizer: whitespace runs collapsed to one space, then ::tolower.     *)
(***************************************************************************)
RECURSIVE CollapseFrom(_, _)
CollapseFrom(s, i) ==
  IF i > Len(s) THEN <<>>
  ELSE IF IsSpace(s[i])
       THEN IF IsSpace(At(s, i + 1)) THEN CollapseFrom(s, i + 1)
            ELSE <<" ">> \o CollapseFrom(s, i + 1)
       ELSE <<s[i]>> \o CollapseFrom(s, i + 1)

\* std::regex_replace(expression, spaces, " ")
CompressWhitespace(s) == CollapseFrom(s, 1)

\* a conversion that leaves every character as it is
ToLowerChar_Identity(c) == c

\* ::tolower on one character
ToLowerChar(c) ==
  IF \E i \in 1..Len(UpperCase) : UpperCase[i] = c
  THEN LowerCase[CHOOSE i \in 1..Len(UpperCase) : UpperCase[i] = c]
  ELSE c

\* std::transform(..., ::tolower)
ToLower(s) == [i \in 1..Len(s) |-> ToLowerChar(s[i])]

Normalize(s) == ToLower(CompressWhitespace(s))

(***************************************************************************)
(* The two patterns.  Each Match operator gives the length of the match of *)
(* one alternative that starts at position i (0: no match there), with the *)
(* ECMAScript rules std::regex follows: alternatives in order, greedy      *)
(* quantifiers, backtracking.                                              *)
(***************************************************************************)
RECURSIVE DigitRun(_, _)
\* the number of consecutive digits from position i on
DigitRun(s, i) == IF IsDigit(At(s, i)) THEN 1 + DigitRun(s, i + 1) ELSE 0

RECURSIVE SpaceRun(_, _)
SpaceRun(s, i) == IF IsSpace(At(s, i)) THEN 1 + SpaceRun(s, i + 1) ELSE 0

\* the pattern written \d+[.]?\d* : a trailing point is taken, a leading one is not
MatchMantissa_TrailingPoint(s, i) ==
  LET k == DigitRun(s, i)
  IN  IF k = 0 THEN 0
      ELSE IF At(s, i + k) = "." THEN k + 1 + DigitRun(s, i + k + 1) ELSE k

\* (?:\d*[.]?\d+)
MatchMantissa(s, i) ==
  LET k == DigitRun(s, i)
      m == IF At(s, i + k) = "." THEN DigitRun(s, i + k + 1) ELSE 0
  IN  IF m > 0 THEN k + 1 + m ELSE k

\* (?:e[+\-]?\d+)?
MatchExponent(s, j) ==
  IF At(s, j) # "e" THEN 0
  ELSE LET sg == IF At(s, j + 1) \in {"+", "-"} THEN 1 ELSE 0
           ed == DigitRun(s, j + 1 + sg)
       IN  IF ed > 0 THEN 1 + sg + ed ELSE 0

\* (?:\d*[.]?\d+)(?:e[+\-]?\d+)?
MatchNumber(s, i) ==
  LET m == MatchMantissa(s, i)
  IN  IF m = 0 THEN 0 ELSE m + MatchExponent(s, i + m)

\* (?:[()+\-*\/^%x])
MatchOperator(s, i) == IF At(s, i) \in OperatorChars THEN 1 ELSE 0

KeywordAt(s, i, k) ==
  \A j \in 1..Len(Keywords[k]) : At(s, i + j - 1) = Keywords[k][j]

\* (?:(?:cos)|(?:sin)|(?:tan))|(?:cot)|(?:csc)|(?:sec)|e|(?:pi)|(?:tau)
MatchKeyword(s, i) ==
  LET hits == {k \in 1..Len(Keywords) : KeywordAt(s, i, k)}
  IN  IF hits = {} THEN 0
      ELSE Len(Keywords[CHOOSE k \in hits : \A h \in hits : k <= h])

\* (?:\s+)
MatchSpaces(s, i) == SpaceRun(s, i)

\* The match of pattern_number_or_operator (spaces = FALSE) or of
\* pattern_number_or_operator_or_spaces (spaces = TRUE) that starts at i.
MatchAt(s, i, spaces) ==
  IF MatchNumber(s, i) > 0 THEN MatchNumber(s, i)
  ELSE IF MatchOperator(s, i) > 0 THEN MatchOperator(s, i)
  ELSE IF MatchKeyword(s, i) > 0 THEN MatchKeyword(s, i)
  ELSE IF spaces THEN MatchSpaces(s, i)
  ELSE 0

NoMatch == <<0, 0>>

RECURSIVE RegexSearch(_, _, _)
\* std::regex_search from position i on: <<start, length>> of the leftmost
\* match, or NoMatch.
RegexSearch(s, i, spaces) ==
  IF i > Len(s) THEN NoMatch
  ELSE IF MatchAt(s, i, spaces) > 0 THEN <<i, MatchAt(s, i, spaces)>>
  ELSE RegexSearch(s, i + 1, spaces)

RECURSIVE FirstUnmatched(_, _)
\* The verification loop: sregex_token_iterator with submatch -1 yields the
\* stretches between the matches (and after the last one); the first of
\* positive length is returned as <<start, length>>, NoMatch if there is none.
FirstUnmatched(s, i) ==
  LET m == RegexSearch(s, i, TRUE)
  IN  IF m = NoMatch
      THEN IF i <= Len(s) THEN <<i, Len(s) - i + 1>> ELSE NoMatch
      ELSE IF m[1] > i THEN <<i, m[1] - i>>
      ELSE FirstUnmatched(s, m[1] + m[2])

(***************************************************************************)
(* Values.  The program computes with IEEE doubles.  A value of the model  *)
(* is a record [k, n, d, args]:                                            *)
(*   k = "q"    the double that is exactly n/d (d a power of two, n and d   *)
(*              coprime and at most Limit): on these, + - * / and pow with  *)
(*              an exactly representable result are exact in IEEE too;     *)
(*   k = "rnd"  the double nearest to n/d, where n/d is no double;          *)
(*   k = "lit"  a literal outside the range above (n its digits, d its     *)
(*              power of ten);                                             *)
(*   k = "nan"  NaN;                                                       *)
(*   k = "e", "pi", "tau", "d2r"  the constants of common/math.h;           *)
(*   any other k: the (rounded) result of that operation on args, a value  *)
(*              the model does not compute.                                *)
(* A test on a value is three-valued: "T", "F", or "U" when the model      *)
(* cannot tell; the caller resolves "U" by a nondeterministic choice.      *)
(***************************************************************************)
Limit == 30000

Term(k, args) == [k |-> k, n |-> 0, d |-> 1, args |-> args]

NaN == Term("nan", <<>>)

Abs(i) == IF i < 0 THEN -i ELSE i

RECURSIVE GCD(_, _)
GCD(a, b) == IF b = 0 THEN a ELSE GCD(b, a % b)

RECURSIVE IsPow2(_)
IsPow2(d) == d = 1 \/ (d > 1 /\ d % 2 = 0 /\ IsPow2(d \div 2))

\* The double for the rational n/d (d # 0) when the model represents it,
\* otherwise the term other.
Rat(n, d, other) ==
  LET g  == GCD(Abs(n), Abs(d))
      nn == IF d < 0 THEN -(n \div g) ELSE n \div g
      dd == Abs(d) \div g
  IN  IF Abs(nn) > Limit \/ dd > Limit THEN other
      ELSE [k |-> IF IsPow2(dd) THEN "q" ELSE "rnd", n |-> nn, d |-> dd, args |-> <<>>]

Q(n) == [k |-> "q", n |-> n, d |-> 1, args |-> <<>>]

IsExact(v) == v.k = "q"

IsNaN(v) == v.k = "nan"

\* a + b
Add(a, b) ==
  IF IsNaN(a) \/ IsNaN(b) THEN NaN
  ELSE IF IsExact(a) /\ IsExact(b)
       THEN Rat(a.n * b.d + b.n * a.d, a.d * b.d, Term("add", <<a, b>>))
       ELSE Term("add", <<a, b>>)

\* a - b
Sub(a, b) ==
  IF IsNaN(a) \/ IsNaN(b) THEN NaN
  ELSE IF IsExact(a) /\ IsExact(b)
       THEN Rat(a.n * b.d - b.n * a.d, a.d * b.d, Term("sub", <<a, b>>))
       ELSE Term("sub", <<a, b>>)

\* a * b
Mul(a, b) ==
  IF IsNaN(a) \/ IsNaN(b) THEN NaN
  ELSE IF IsExact(a) /\ IsExact(b)
       THEN Rat(a.n * b.n, a.d * b.d, Term("mul", <<a, b>>))
       ELSE IF b.k = "d2r" /\ IsExact(a) /\ a.n = 0 THEN a
       ELSE Term("mul", <<a, b>>)

\* a / b as IEEE computes it (no check of the divisor)
Div(a, b) ==
  IF IsNaN(a) \/ IsNaN(b) THEN NaN
  ELSE IF IsExact(a) /\ IsExact(b) /\ b.n # 0
       THEN Rat(a.n * b.d, a.d * b.n, Term("div", <<a, b>>))
       ELSE Term("div", <<a, b>>)

\* a * -1.0
Negate(a) ==
  IF IsNaN(a) THEN NaN
  ELSE IF a.k \in {"q", "rnd"} THEN [a EXCEPT !.n = -a.n]
  ELSE IF a.k = "neg" THEN a.args[1]
  ELSE Term("neg", <<a>>)

RECURSIVE IntPow(_, _, _)
\* b^e for integers b, e >= 0, or -1 once the magnitude passes Limit
IntPow(b, e, acc) ==
  IF Abs(acc) > Limit THEN -1
  ELSE IF e = 0 THEN acc
  ELSE IntPow(b, e - 1, acc * b)

\* |b|^e, or -1 once it passes Limit
MagPow(b, e) ==
  IF Abs(b) = 1 \/ e = 0 THEN 1
  ELSE IF b = 0 THEN 0
  ELSE IntPow(Abs(b), e, 1)

\* std::pow(a, b)
Pow(a, b) ==
  LET other == Term("pow", <<a, b>>)
  IN  IF IsExact(b) /\ b.n = 0 THEN Q(1)
      ELSE IF IsExact(a) /\ a.n = 1 /\ a.d = 1 THEN Q(1)
      ELSE IF IsNaN(a) \/ IsNaN(b) THEN NaN
      ELSE IF a.k \in {"q", "rnd"} /\ a.n < 0 /\ b.k \in {"q", "rnd"} /\ b.d # 1 THEN NaN
      ELSE IF IsExact(a) /\ IsExact(b) /\ b.d = 1 /\ ~(a.n = 0 /\ b.n < 0)
           THEN LET e  == Abs(b.n)
                    pn == MagPow(a.n, e)
                    pd == MagPow(a.d, e)
                    sn == IF a.n < 0 /\ e % 2 = 1 THEN -pn ELSE pn
                IN  IF pn = -1 \/ pd = -1 THEN other
                    ELSE IF b.n > 0 THEN Rat(sn, pd, other)
                    ELSE IF IsPow2(pn) THEN Rat(IF sn < 0 THEN -pd ELSE pd, pn, other)
                    ELSE other
           ELSE other

\* v == 0.0
IsZero3(v) ==
  IF v.k \in {"q", "rnd"} THEN IF v.n = 0 THEN "T" ELSE "F"
  ELSE IF v.k \in {"nan", "e", "pi", "tau", "d2r"} THEN "F"
  ELSE IF v.k = "neg" /\ v.args[1].k \in {"e", "pi", "tau"} THEN "F"
  ELSE "U"

\* v < 0
IsNeg3(v) ==
  IF v.k \in {"q", "rnd"} THEN IF v.n < 0 THEN "T" ELSE "F"
  ELSE IF v.k \in {"nan", "e", "pi", "tau", "d2r", "lit"} THEN "F"
  ELSE IF v.k = "neg" /\ v.args[1].k \in {"e", "pi", "tau"} THEN "T"
  ELSE IF v.k = "pow" /\ v.args[1].k \in {"q", "rnd", "e", "pi", "tau"}
          /\ v.args[1].n >= 0 /\ IsZero3(v.args[1]) = "F" THEN "F"
  ELSE "U"

\* std::modf(v, &d) > 0: v has a fractional part, of the sign of v, and v > 0
FracPos3(v) ==
  IF v.k \in {"q", "rnd"} THEN IF v.n > 0 /\ v.d # 1 THEN "T" ELSE "F"
  ELSE IF v.k \in {"e", "pi", "tau", "d2r"} THEN "T"
  ELSE IF v.k = "nan" THEN "F"
  ELSE IF v.k = "neg" /\ v.args[1].k \in {"e", "pi", "tau"} THEN "F"
  ELSE "U"

\* A three-valued test resolved with the choice o where the model cannot tell.
Resolve(t, o) == IF t = "U" THEN o ELSE t = "T"

(***************************************************************************)
(* atof on a lexeme that matched the number alternative.                   *)
(***************************************************************************)
RECURSIVE DigitsValue(_, _, _)
\* the integer written by the digits of s in positions i..j, skipping "."
DigitsValue(s, i, j) ==
  IF j < i THEN 0
  ELSE IF s[j] = "." THEN DigitsValue(s, i, j - 1)
  ELSE 10 * DigitsValue(s, i, j - 1) + DigitValue(s[j])

RECURSIVE Pow10(_)
Pow10(e) == IF e = 0 THEN 1 ELSE 10 * Pow10(e - 1)

\* a lexeme of more than 9 characters stays a literal the model does not compute
Atof(s) ==
  IF Len(s) > 9 THEN [k |-> "lit", n |-> -1, d |-> Len(s), args |-> <<>>]
  ELSE
  LET m    == MatchMantissa(s, 1)
      dot  == IF \E i \in 1..m : s[i] = "." THEN CHOOSE i \in 1..m : s[i] = "." ELSE 0
      frac == IF dot = 0 THEN 0 ELSE m - dot
      mant == DigitsValue(s, 1, m)
      x    == MatchExponent(s, m + 1)
      sg   == IF x > 0 /\ s[m + 2] \in {"+", "-"} THEN 1 ELSE 0
      ex   == IF x = 0 THEN 0
              ELSE IF s[m + 2] = "-" THEN -DigitsValue(s, m + 2 + sg, m + x)
              ELSE DigitsValue(s, m + 2 + sg, m + x)
      p    == ex - frac
      lit  == [k |-> "lit", n |-> mant, d |-> p, args |-> <<>>]
  IN  IF mant = 0 THEN Q(0)
      ELSE IF Abs(p) > 9 THEN lit   \* 10^9 is the largest power of ten in range
      ELSE IF p >= 0
           THEN IF mant > Limit \/ Pow10(p) > Limit THEN lit ELSE Rat(mant * Pow10(p), 1, lit)
           ELSE Rat(mant, Pow10(-p), lit)

(***************************************************************************)
(* Operator registry                                                       *)
(***************************************************************************)
\* Operator::null_operator(): { NONE, Associativity::NONE, -1 }, degree 0
null_operator == [type |-> "NONE", associativity |-> "NONE", precedence |-> -1, degree |-> 0]

\* the table with EXPONENT entered as left-associative
Op_LeftExponent(t, a, p, d) ==
  [type |-> t, associativity |-> IF t = "EXPONENT" THEN "LEFT" ELSE a,
   precedence |-> p, degree |-> d]

\* one row of the table: { type, associativity, precedence, degree }
Op(t, a, p, d) == [type |-> t, associativity |-> a, precedence |-> p, degree |-> d]

\* the table with a left parenthesis that binds tighter than every operator
operators_HighParen ==
  << Op("PAREN_L", "NONE", 300, 0),    Op("PAREN_R", "NONE", 0, 0),
     Op("ADD", "LEFT", 10, 2),         Op("SUBTRACT", "LEFT", 10, 2),
     Op("DIVIDE", "LEFT", 20, 2),      Op("MULTIPLY", "LEFT", 20, 2),
     Op("PERCENTAGE", "LEFT", 30, 1),  Op("TIMES", "LEFT", 30, 1),
     Op("COSECANT", "RIGHT", 40, 1),   Op("COSINE", "RIGHT", 40, 1),
     Op("COTANGENT", "RIGHT", 40, 1),  Op("SECANT", "RIGHT", 40, 1),
     Op("SINE", "RIGHT", 40, 1),       Op("TANGENT", "RIGHT", 40, 1),
     Op("EXPONENT", "RIGHT", 90, 2),
     Op("UNARY_MINUS", "RIGHT", 100, 1), Op("UNARY_PLUS", "RIGHT", 100, 1),
     Op("E", "LEFT", 200, 0),          Op("PI", "LEFT", 200, 0),
     Op("TAU", "LEFT", 200, 0) >>

\* the vector operators of init_operator_map
operators ==
  << Op("PAREN_L", "NONE", 0, 0),      Op("PAREN_R", "NONE", 0, 0),
     Op("ADD", "LEFT", 10, 2),         Op("SUBTRACT", "LEFT", 10, 2),
     Op("DIVIDE", "LEFT", 20, 2),      Op("MULTIPLY", "LEFT", 20, 2),
     Op("PERCENTAGE", "LEFT", 30, 1),  Op("TIMES", "LEFT", 30, 1),
     Op("COSECANT", "RIGHT", 40, 1),   Op("COSINE", "RIGHT", 40, 1),
     Op("COTANGENT", "RIGHT", 40, 1),  Op("SECANT", "RIGHT", 40, 1),
     Op("SINE", "RIGHT", 40, 1),       Op("TANGENT", "RIGHT", 40, 1),
     Op("EXPONENT", "RIGHT", 90, 2),
     Op("UNARY_MINUS", "RIGHT", 100, 1), Op("UNARY_PLUS", "RIGHT", 100, 1),
     Op("E", "LEFT", 200, 0),          Op("PI", "LEFT", 200, 0),
     Op("TAU", "LEFT", 200, 0) >>

\* Operator::from_type
from_type(type) ==
  IF \E i \in 1..Len(operators) : operators[i].type = type
  THEN operators[CHOOSE i \in 1..Len(operators) : operators[i].type = type]
  ELSE null_operator

(***************************************************************************)
(* Tokens                                                                  *)
(***************************************************************************)
\* the map of Token::string_to_id (a key is a sequence of characters)
TokenIds ==
  << << <<"%">>, "PERCENT">>,  << <<"(">>, "PAREN_L">>, << <<")">>, "PAREN_R">>,
     << <<"*">>, "ASTERISK">>, << <<"+">>, "PLUS">>,    << <<"-">>, "MINUS">>,
     << <<"/">>, "SLASH">>,    << <<"^">>, "CARET">>,
     << <<"c", "o", "s">>, "COS">>, << <<"c", "o", "t">>, "COT">>,
     << <<"c", "s", "c">>, "CSC">>, << <<"e">>, "E">>,
     << <<"p", "i">>, "PI">>,       << <<"s", "e", "c">>, "SEC">>,
     << <<"s", "i", "n">>, "SIN">>, << <<"t", "a", "n">>, "TAN">>,
     << <<"t", "a", "u">>, "TAU">>, << <<"x">>, "X">> >>

\* Token::string_to_id
string_to_id(string) ==
  IF \E i \in 1..Len(TokenIds) : TokenIds[i][1] = string
  THEN TokenIds[CHOOSE i \in 1..Len(TokenIds) : TokenIds[i][1] = string][2]
  ELSE "NONE"

\* the switch of Token::id_to_operator
id_to_operator_type(id, left_edge) ==
  CASE id = "ASTERISK" -> "MULTIPLY"
    [] id = "CARET"    -> "EXPONENT"
    [] id = "CSC"      -> "COSECANT"
    [] id = "COS"      -> "COSINE"
    [] id = "COT"      -> "COTANGENT"
    [] id = "E"        -> "E"
    [] id = "NONE"     -> "NONE"
    [] id = "PAREN_L"  -> "PAREN_L"
    [] id = "PAREN_R"  -> "PAREN_R"
    [] id = "PERCENT"  -> "PERCENTAGE"
    [] id = "PI"       -> "PI"
    [] id = "SEC"      -> "SECANT"
    [] id = "SIN"      -> "SINE"
    [] id = "SLASH"    -> "DIVIDE"
    [] id = "TAN"      -> "TANGENT"
    [] id = "TAU"      -> "TAU"
    [] id = "X"        -> "TIMES"
    [] id = "MINUS"    -> IF left_edge THEN "UNARY_MINUS" ELSE "SUBTRACT"
    [] id = "PLUS"     -> IF left_edge THEN "UNARY_PLUS" ELSE "ADD"

\* the resolution that never looks at the context: a sign is always binary
id_to_operator_Binary(id, left_edge) == from_type(id_to_operator_type(id, FALSE))

\* Token::id_to_operator
id_to_operator(id, left_edge) == from_type(id_to_operator_type(id, left_edge))

\* the token whose "+" or "-" is the binary operator whatever is on its left
NewToken_NeverEdge(string, left_edge, position) ==
  LET id   == string_to_id(string)
      type == IF id = "NONE" THEN "NUMBER" ELSE "OPERATOR"
  IN  [string   |-> string,
       position |-> position,
       id       |-> id,
       type     |-> type,
       op       |-> id_to_operator(id, FALSE),
       value    |-> IF type = "NUMBER" THEN Atof(string) ELSE NaN]

\* Token::Token(string, left_is_edge), then token.position = position
NewToken(string, left_edge, position) ==
  LET id   == string_to_id(string)
      type == IF id = "NONE" THEN "NUMBER" ELSE "OPERATOR"
  IN  [string   |-> string,
       position |-> position,
       id       |-> id,
       type     |-> type,
       op       |-> id_to_operator(id, left_edge),
       value    |-> IF type = "NUMBER" THEN Atof(string) ELSE NaN]

\* Token::null_token()
null_token ==
  [string |-> <<>>, position |-> 0, id |-> "NONE", type |-> "NONE",
   op |-> null_operator, value |-> NaN]

(***************************************************************************)
(* Operator::eval                                                          *)
(***************************************************************************)
e_double == Term("e", <<>>)

pi_double == Term("pi", <<>>)

\* common::math::tau<double>() = pi * 2.0
tau_double == Term("tau", <<>>)

\* DEG_TO_RAD = static_cast<float>(pi / 180.0)
DEG_TO_RAD == Term("d2r", <<>>)

Sin(v) == IF IsNaN(v) THEN NaN ELSE IF v = Q(0) THEN Q(0) ELSE Term("sin", <<v>>)

Cos(v) == IF IsNaN(v) THEN NaN ELSE IF v = Q(0) THEN Q(1) ELSE Term("cos", <<v>>)

Tan(v) == IF IsNaN(v) THEN NaN ELSE IF v = Q(0) THEN Q(0) ELSE Term("tan", <<v>>)

\* unary_operator_function(type)(d), with cot, csc, sec = 1.0 / tan, sin, cos
unary_operator_function(type, d) ==
  CASE type = "COSECANT"  -> Div(Q(1), Sin(d))
    [] type = "COSINE"    -> Cos(d)
    [] type = "COTANGENT" -> Div(Q(1), Tan(d))
    [] type = "SECANT"    -> Div(Q(1), Cos(d))
    [] type = "SINE"      -> Sin(d)
    [] type = "TANGENT"   -> Tan(d)

Top(st) == st[Len(st)]

Pop(st) == SubSeq(st, 1, Len(st) - 1)

Push(st, v) == Append(st, v)

Outcome(err, values) == [error |-> err, values |-> values]

\* the scaling with the division by 100.0 of the percentage left out
ApplyCurrent_NoScale(type, value, current_value) == Mul(value, current_value)

\* lines 239 and 246: value * current_value / 100.0 and value * current_value
ApplyCurrent(type, value, current_value) ==
  IF type = "PERCENTAGE" THEN Div(Mul(value, current_value), Q(100))
  ELSE Mul(value, current_value)

\* the unary branch of Operator::eval: the operand is popped first
EvalUnary(op, values, use_degrees, current_value) ==
  LET value == Top(values)
      rest  == Pop(values)
  IN  CASE op.type \in {"COSECANT", "COSINE", "COTANGENT", "SECANT", "SINE", "TANGENT"} ->
             Outcome("NONE", Push(rest,
               IF use_degrees THEN unary_operator_function(op.type, Mul(value, DEG_TO_RAD))
               ELSE unary_operator_function(op.type, value)))
        [] op.type = "PERCENTAGE" ->
             IF IsNaN(current_value) THEN Outcome("EXPECTED_CURRENT_VALUE", rest)
             ELSE Outcome("NONE", Push(rest, ApplyCurrent(op.type, value, current_value)))
        [] op.type = "TIMES" ->
             IF IsNaN(current_value) THEN Outcome("EXPECTED_CURRENT_VALUE", rest)
             ELSE Outcome("NONE", Push(rest, ApplyCurrent(op.type, value, current_value)))
        [] op.type = "UNARY_MINUS" -> Outcome("NONE", Push(rest, Negate(value)))
        [] op.type = "UNARY_PLUS"  -> Outcome("NONE", Push(rest, value))

\* the binary branch of Operator::eval: both operands are popped first; o1
\* and o2 resolve the tests the model cannot decide
EvalBinary(op, values, o1, o2) ==
  LET b    == Top(values)
      a    == Top(Pop(values))
      rest == Pop(Pop(values))
  IN  CASE op.type = "ADD"      -> Outcome("NONE", Push(rest, Add(a, b)))
        [] op.type = "SUBTRACT" -> Outcome("NONE", Push(rest, Sub(a, b)))
        [] op.type = "DIVIDE"   ->
             IF Resolve(IsZero3(b), o1) THEN Outcome("DIVIDE_BY_ZERO", rest)
             ELSE Outcome("NONE", Push(rest, Div(a, b)))
        [] op.type = "MULTIPLY" -> Outcome("NONE", Push(rest, Mul(a, b)))
        [] op.type = "EXPONENT" ->
             IF Resolve(IsNeg3(a), o1) /\ Resolve(FracPos3(b), o2)
             THEN Outcome("IMAGINARY_NUMBER", rest)
             ELSE Outcome("NONE", Push(rest, Pow(a, b)))

\* lines 194-289: the switch of Operator::eval, entered with enough values
EvalSwitch(op, values, use_degrees, current_value, o1, o2) ==
  CASE op.type \in {"NONE", "PAREN_L", "PAREN_R"} -> Outcome("UNEXPECTED_TOKEN", values)
    [] op.type = "E"   -> Outcome("NONE", Push(values, e_double))
    [] op.type = "PI"  -> Outcome("NONE", Push(values, pi_double))
    [] op.type = "TAU" -> Outcome("NONE", Push(values, tau_double))
    [] op.type \in {"COSECANT", "COSINE", "COTANGENT", "PERCENTAGE", "SECANT", "SINE",
                    "TANGENT", "TIMES", "UNARY_MINUS", "UNARY_PLUS"} ->
         EvalUnary(op, values, use_degrees, current_value)
    [] op.type \in {"ADD", "DIVIDE", "EXPONENT", "MULTIPLY", "SUBTRACT"} ->
         EvalBinary(op, values, o1, o2)

\* the evaluation that looks at the current value before it counts the values
Eval_CurrentFirst(op, values, use_degrees, current_value, o1, o2) ==
  IF op.type \in {"PERCENTAGE", "TIMES"} /\ IsNaN(current_value)
  THEN Outcome("EXPECTED_CURRENT_VALUE", values)
  ELSE IF Len(values) < op.degree THEN Outcome("EXPECTED_MORE_ARGUMENTS", values)
  ELSE EvalSwitch(op, values, use_degrees, current_value, o1, o2)

\* Operator::eval(values, config, current_value)
Eval(op, values, use_degrees, current_value, o1, o2) ==
  IF Len(values) < op.degree THEN Outcome("EXPECTED_MORE_ARGUMENTS", values)
  ELSE EvalSwitch(op, values, use_degrees, current_value, o1, o2)

\* whether evaluating op on values makes a test the model cannot decide
Undecided(op, values) ==
  /\ Len(values) >= op.degree
  /\ \/ op.type = "DIVIDE" /\ IsZero3(Top(values)) = "U"
     \/ op.type = "EXPONENT" /\ (IsNeg3(Top(Pop(values))) = "U" \/ FracPos3(Top(values)) = "U")

\* the choices for (o1, o2) in an evaluation of op on values
Choices(op, values) ==
  IF Undecided(op, values) THEN BOOLEAN \X BOOLEAN ELSE {<<FALSE, FALSE>>}

(***************************************************************************)
(* Result                                                                  *)
(***************************************************************************)
\* a member the constructor leaves uninitialized
Indeterminate == Term("indeterminate", <<>>)

\* error_position(-1) of the success constructor: SIZE_MAX, written -1 here
NoPosition == -1

NoResult ==
  [status |-> "NONE", result |-> Indeterminate, filtered_expression |-> <<>>,
   parsing_error |-> "NONE", evaluation_error |-> "NONE",
   error_position |-> 0, error_length |-> 0]

\* a parse error that leaves the expression out
ParsingError_NoExpression(kind, filtered, position, length) ==
  [status |-> "PARSING_ERROR", result |-> Indeterminate, filtered_expression |-> <<>>,
   parsing_error |-> kind, evaluation_error |-> "NONE",
   error_position |-> position, error_length |-> length]

\* Result::Result(ParsingErrorType, filtered_expression, error_position, error_length)
ParsingError(kind, filtered, position, length) ==
  [status |-> "PARSING_ERROR", result |-> Indeterminate, filtered_expression |-> filtered,
   parsing_error |-> kind, evaluation_error |-> "NONE",
   error_position |-> position, error_length |-> length]

\* Result::Result(EvaluationErrorType, filtered_expression, error_position, error_length)
EvaluationError(kind, filtered, position, length) ==
  [status |-> "EVALUATION_ERROR", result |-> Indeterminate, filtered_expression |-> filtered,
   parsing_error |-> "NONE", evaluation_error |-> kind,
   error_position |-> position, error_length |-> length]

\* Result::Result(double)
Success(value) ==
  [status |-> "SUCCESS", result |-> value, filtered_expression |-> <<>>,
   parsing_error |-> "NONE", evaluation_error |-> "NONE",
   error_position |-> NoPosition, error_length |-> 0]

(***************************************************************************)
(* evaluate_expression as a state machine.  pc is the position in the      *)
(* function: "start" (entry), "verify" (the verification loop), "scan"     *)
(* (head of the token loop), "reduce" (head of the loop of the default     *)
(* case), "rparen" (head of the loop of case PAREN_R), "drain" (head of    *)
(* the loop after the token loop), "done" (returned), "aborted" (the       *)
(* assert failed).                                                         *)
(***************************************************************************)
VARIABLES
  expression,     \* the argument expression
  current_value,  \* the argument current_value
  use_degrees,    \* config.use_degrees
  input,          \* the local input
  it,             \* the token iterator: where the next search starts
  left_is_edge,   \* the local left_is_edge
  output,         \* the value stack (top last)
  stack,          \* the operator stack (top last)
  token,          \* the token of the current iteration
  pc,
  result,         \* the Result returned
  earlier,        \* the Result of an earlier call, kept by the caller
  once,           \* of each guarded function-local static: "no", "running", "yes"
  initialized,    \* init_operator_map: static bool initialized
  map,            \* init_operator_map: static map
  operator_map,   \* Operator::from_type: static _operator_map
  unary_functions,\* unary_operator_function: static unary_functions (its keys)
  thread          \* of each thread: where it is in a function that uses a static

\* the state shared between calls
statics == <<once, initialized, map, operator_map, unary_functions, thread>>

vars == <<expression, current_value, use_degrees, input, it, left_is_edge,
          output, stack, token, pc, result, earlier, statics>>

\* what the steps of one call leave as it is: the arguments, what the caller
\* keeps, and the statics, whose uses are the steps of SpecRegistry
args == <<expression, current_value, use_degrees, earlier, statics>>

\* the threads that call
MaxThreads == 3

Threads == 1..MaxThreads

Statics == {"_operator_map", "map", "operators", "unary_functions"}

\* line 144-169, as the pairs of lines 170-172
AllOperators == {operators[i] : i \in 1..Len(operators)}

\* lines 124-129: the keys of unary_functions
unary_function_keys ==
  {"COSECANT", "COSINE", "COTANGENT", "SECANT", "SINE", "TANGENT"}

Idle == [pc |-> "idle", type |-> "NONE", i |-> 0]

\* the statics after their first use, with no thread inside
StaticsReady ==
  /\ once = [n \in Statics |-> "yes"]
  /\ initialized = TRUE
  /\ map = AllOperators
  /\ operator_map = AllOperators
  /\ unary_functions = unary_function_keys
  /\ thread = [t \in Threads |-> Idle]

InitWith(expressions, currents, configs) ==
  /\ expression \in expressions
  /\ current_value \in currents
  /\ use_degrees \in configs
  /\ input = <<>>
  /\ it = 1
  /\ left_is_edge = TRUE
  /\ output = <<>>
  /\ stack = <<>>
  /\ token = null_token
  /\ pc = "start"
  /\ result = NoResult
  /\ earlier = NoResult
  /\ StaticsReady

Return(r) == result' = r /\ pc' = "done"

\* lines 402-408: compress whitespace, convert to lower case
NormalizeInput ==
  /\ pc = "start"
  /\ input' = Normalize(expression)
  /\ pc' = "verify"
  /\ UNCHANGED <<args, it, left_is_edge, output, stack, token, result>>

\* lines 410-432: the verification loop, then the locals of the algorithm
VerifyInput ==
  /\ pc = "verify"
  /\ LET gap == FirstUnmatched(input, 1)
     IN  IF gap # NoMatch
         THEN /\ Return(ParsingError("SYNTAX_ERROR", input, gap[1] - 1, gap[2]))
              /\ UNCHANGED <<it, left_is_edge, output, stack>>
         ELSE /\ pc' = "scan"
              /\ it' = 1
              /\ left_is_edge' = TRUE
              /\ output' = <<>>
              /\ stack' = <<>>
              /\ UNCHANGED result
  /\ UNCHANGED <<args, input, token>>

\* the update that takes every operator, ")" included, for an edge
EdgeAfter_ParenToo(t) == t.type = "NONE" \/ t.type = "OPERATOR"

\* line 442
EdgeAfter(t) ==
  t.type = "NONE" \/ (t.type = "OPERATOR" /\ t.op.type # "PAREN_R")

\* lines 436-452, 472-477, 499-501: one token is read and dispatched
NextToken ==
  /\ pc = "scan"
  /\ RegexSearch(input, it, FALSE) # NoMatch
  /\ LET m == RegexSearch(input, it, FALSE)
         t == NewToken(SubSeq(input, m[1], m[1] + m[2] - 1), left_is_edge, m[1] - 1)
     IN  /\ token' = t
         /\ it' = m[1] + m[2]
         /\ left_is_edge' = EdgeAfter(t)
         /\ CASE t.type = "NUMBER" ->
                   /\ output' = Push(output, t.value)
                   /\ pc' = "scan"
                   /\ UNCHANGED <<stack, result>>
              [] t.type = "OPERATOR" /\ t.op.type = "PAREN_L" ->
                   /\ stack' = Push(stack, t)
                   /\ pc' = "scan"
                   /\ UNCHANGED <<output, result>>
              [] t.type = "OPERATOR" /\ t.op.type = "PAREN_R" ->
                   /\ IF stack = <<>>
                      THEN Return(ParsingError("MISMATCHED_PARENS", input, t.position, 0))
                      ELSE pc' = "rparen" /\ UNCHANGED result
                   /\ UNCHANGED <<output, stack>>
              [] t.type = "OPERATOR" /\ t.op.type \notin {"PAREN_L", "PAREN_R"} ->
                   /\ pc' = "reduce"
                   /\ UNCHANGED <<output, stack, result>>
              [] t.type = "NONE" ->
                   /\ Return(EvaluationError("UNEXPECTED_TOKEN", input, t.position, 0))
                   /\ UNCHANGED <<output, stack>>
  /\ UNCHANGED <<args, input>>

\* the error reported at the token t without the length of its lexeme
ErrorAt_NoLength(kind, filtered, t) == EvaluationError(kind, filtered, t.position, 0)

\* lines 460, 485, 512: { eval_error, input, token.position, token.string.length() }
ErrorAt(kind, filtered, t) == EvaluationError(kind, filtered, t.position, Len(t.string))

\* the test with associativity ignored: every operator waits for a strictly
\* higher precedence
Reduces_Strict(op, top) == op.precedence < top.precedence

\* lines 456-457: whether the incoming operator op reduces the operator top
Reduces(op, top) ==
  \/ op.associativity = "LEFT" /\ op.precedence <= top.precedence
  \/ op.associativity = "RIGHT" /\ op.precedence < top.precedence

\* lines 453-470: one iteration of the loop of the default case
ReduceStep ==
  /\ pc = "reduce"
  /\ IF stack = <<>>
     THEN /\ stack' = Push(stack, token)
          /\ pc' = "scan"
          /\ UNCHANGED <<output, result>>
     ELSE IF token.op.associativity = "NONE"
     THEN /\ pc' = "aborted"
          /\ UNCHANGED <<output, stack, result>>
     ELSE IF Reduces(token.op, Top(stack).op)
     THEN \E o \in Choices(Top(stack).op, output) :
            LET r == Eval(Top(stack).op, output, use_degrees, current_value, o[1], o[2])
            IN  /\ output' = r.values
                /\ IF r.error # "NONE"
                   THEN /\ Return(ErrorAt(r.error, input, token))
                        /\ UNCHANGED stack
                   ELSE /\ stack' = Pop(stack)
                        /\ UNCHANGED <<pc, result>>
     ELSE /\ stack' = Push(stack, token)
          /\ pc' = "scan"
          /\ UNCHANGED <<output, result>>
  /\ UNCHANGED <<args, input, it, left_is_edge, token>>

\* lines 478-494: one iteration of the loop of case PAREN_R
RParenStep ==
  /\ pc = "rparen"
  /\ IF Top(stack).op.type = "PAREN_L"
     THEN /\ stack' = Pop(stack)
          /\ pc' = "scan"
          /\ UNCHANGED <<output, result>>
     ELSE \E o \in Choices(Top(stack).op, output) :
            LET r == Eval(Top(stack).op, output, use_degrees, current_value, o[1], o[2])
            IN  /\ output' = r.values
                /\ IF r.error # "NONE"
                   THEN /\ Return(ErrorAt(r.error, input, token))
                        /\ UNCHANGED stack
                   ELSE /\ stack' = Pop(stack)
                        /\ IF Pop(stack) = <<>>
                           THEN Return(ParsingError("MISMATCHED_PARENS", input,
                                                    token.position, 0))
                           ELSE UNCHANGED <<pc, result>>
  /\ UNCHANGED <<args, input, it, left_is_edge, token>>

\* line 436: the token loop ends
EndOfTokens ==
  /\ pc = "scan"
  /\ RegexSearch(input, it, FALSE) = NoMatch
  /\ pc' = "drain"
  /\ UNCHANGED <<args, input, it, left_is_edge, output, stack, token, result>>

\* the test of line 507 made for the right parenthesis instead of the left one
IsLeftoverParen_Right(t) == t.op.type = "PAREN_R" \/ t.op.type = "PAREN_R"

\* line 507: the test for a parenthesis left on the stack
IsLeftoverParen(t) == t.op.type = "PAREN_L" \/ t.op.type = "PAREN_L"

\* lines 505-515: one iteration of the loop after the token loop
DrainStep ==
  /\ pc = "drain"
  /\ stack # <<>>
  /\ IF IsLeftoverParen(Top(stack))
     THEN /\ Return(ParsingError("MISMATCHED_PARENS", input, 0, 0))
          /\ UNCHANGED <<output, stack>>
     ELSE \E o \in Choices(Top(stack).op, output) :
            LET r == Eval(Top(stack).op, output, use_degrees, current_value, o[1], o[2])
            IN  /\ output' = r.values
                /\ IF r.error # "NONE"
                   THEN /\ Return(ErrorAt(r.error, input, Top(stack)))
                        /\ UNCHANGED stack
                   ELSE /\ stack' = Pop(stack)
                        /\ UNCHANGED <<pc, result>>
  /\ UNCHANGED <<args, input, it, left_is_edge, token>>

\* the classification without the case of more than one value
Classify_TopOfAny(values) ==
  IF Len(values) = 0 THEN ParsingError("EMPTY", <<>>, 0, 0)
  ELSE Success(Top(values))

\* lines 517-523: the result by the number of values left
Classify(values) ==
  IF Len(values) = 0 THEN ParsingError("EMPTY", <<>>, 0, 0)
  ELSE IF Len(values) = 1 THEN Success(Top(values))
  ELSE ParsingError("SYNTAX_ERROR", <<>>, 0, 0)

\* the return that takes a binary operator as the last token for an error
Finish_OperandLast ==
  /\ pc = "drain"
  /\ stack = <<>>
  /\ Return(IF token.type = "OPERATOR" /\ token.op.degree = 2
            THEN ParsingError("SYNTAX_ERROR", <<>>, 0, 0)
            ELSE Classify(output))
  /\ UNCHANGED <<args, input, it, left_is_edge, output, stack, token>>

\* lines 505, 517-523: the loop ends and the function returns
Finish ==
  /\ pc = "drain"
  /\ stack = <<>>
  /\ Return(Classify(output))
  /\ UNCHANGED <<args, input, it, left_is_edge, output, stack, token>>

Next ==
  \/ NormalizeInput
  \/ VerifyInput
  \/ NextToken
  \/ ReduceStep
  \/ RParenStep
  \/ EndOfTokens
  \/ DrainStep
  \/ Finish

(***************************************************************************)
(* Inputs.  The expressions of a specification are the concatenations of   *)
(* at most n pieces drawn from a set of short character sequences.         *)
(***************************************************************************)
RECURSIVE Concatenations(_, _)
Concatenations(pieces, n) ==
  IF n = 0 THEN {<<>>}
  ELSE LET shorter == Concatenations(pieces, n - 1)
       IN  shorter \cup {s \o p : s \in shorter, p \in pieces}

\* Spec: numbers, parentheses and two binary operators (one of them also a
\* sign)
MaxPieces == 5

ParenPieces == { <<"1">>, <<"(">>, <<")">>, <<"+">>, <<"*">> }

Init == InitWith(Concatenations(ParenPieces, MaxPieces), {NaN}, {TRUE})

Spec == Init /\ [][Next]_vars

\* SpecLex: lexical material: digits, a decimal point, the exponent letter,
\* a character outside the grammar and letters of a keyword in both cases,
\* a space and parentheses
MaxLexPieces == 4

LexPieces ==
  { <<"1">>, <<".">>, <<"e">>, <<"#">>, <<" ">>, <<"(">>, <<")">>, <<"S", "i">>, <<"n">> }

InitLex == InitWith(Concatenations(LexPieces, MaxLexPieces), {NaN}, {TRUE})

SpecLex == InitLex /\ [][Next]_vars

\* SpecSpace: the six whitespace characters among a number in parentheses
\* and an operator
MaxSpacePieces == 4

SpacePieces ==
  { <<" ">>, <<"\f">>, <<"\n">>, <<"\r">>, <<"\t">>, <<"VT">>,
    <<"(", "1", ")">>, <<"+">> }

InitSpace == InitWith(Concatenations(SpacePieces, MaxSpacePieces), {NaN}, {TRUE})

SpecSpace == InitSpace /\ [][Next]_vars

(***************************************************************************)
(* The grammar of the specification (section 6), stated on whole lexemes.  *)
(***************************************************************************)
GrammarOperators == {"(", ")", "+", "-", "*", "/", "^", "%", "x"}

GrammarKeywords ==
  { <<"c", "o", "s">>, <<"s", "i", "n">>, <<"t", "a", "n">>, <<"c", "o", "t">>,
    <<"c", "s", "c">>, <<"s", "e", "c">>, <<"e">>, <<"p", "i">>, <<"t", "a", "u">> }

GrammarDigits == {"0", "1", "2", "3", "4", "5", "6", "7", "8", "9"}

GrammarSpaces == {" ", "\f", "\n", "\r", "\t", "VT"}

Suffix(w, k) == SubSeq(w, k, Len(w))

AllIn(w, chars) == \A i \in 1..Len(w) : w[i] \in chars

IsDigits(w) == Len(w) >= 1 /\ AllIn(w, GrammarDigits)

\* \d*\.?\d+
IsMantissa(w) ==
  \/ IsDigits(w)
  \/ \E k \in 1..Len(w) :
       w[k] = "." /\ AllIn(SubSeq(w, 1, k - 1), GrammarDigits) /\ IsDigits(Suffix(w, k + 1))

\* number = \d*\.?\d+(e[+-]?\d+)?
IsNumber(w) ==
  \/ IsMantissa(w)
  \/ \E k \in 1..Len(w) :
       /\ w[k] = "e"
       /\ IsMantissa(SubSeq(w, 1, k - 1))
       /\ \/ IsDigits(Suffix(w, k + 1))
          \/ At(w, k + 1) \in {"+", "-"} /\ IsDigits(Suffix(w, k + 2))

IsLexeme(w) ==
  \/ IsNumber(w)
  \/ Len(w) = 1 /\ w[1] \in GrammarOperators
  \/ w \in GrammarKeywords
  \/ Len(w) >= 1 /\ AllIn(w, GrammarSpaces)

LexemeStartsAt(s, p) == \E q \in p..Len(s) : IsLexeme(SubSeq(s, p, q))

RECURSIVE Tokenizable(_, _)
\* the first p characters of s are a concatenation of lexemes
Tokenizable(s, p) ==
  p = 0 \/ \E q \in 0..(p - 1) : IsLexeme(SubSeq(s, q + 1, p)) /\ Tokenizable(s, q)

GrammarValid(s) == Tokenizable(s, Len(s))

\* where the first run outside the grammar starts (1-based)
FirstRunStart(s) ==
  LET starts == {p \in 1..Len(s) : Tokenizable(s, p - 1) /\ ~LexemeStartsAt(s, p)}
  IN  CHOOSE p \in starts : \A o \in starts : p <= o

\* the length of the maximal run outside the grammar that starts at p
RunLength(s, p) ==
  LET ends == {q \in (p + 1)..(Len(s) + 1) : q = Len(s) + 1 \/ LexemeStartsAt(s, q)}
  IN  (CHOOSE q \in ends : \A o \in ends : q <= o) - p

(***************************************************************************)
(* C1: an input whose normalized form contains a run of characters outside *)
(* the grammar is answered with SyntaxError, with the 0-based offset and   *)
(* the length of the first such maximal run, whatever surrounds the run.   *)
(***************************************************************************)
C1_SyntaxErrorSpan ==
  (pc = "done" /\ ~GrammarValid(input)) =>
    /\ result.status = "PARSING_ERROR"
    /\ result.parsing_error = "SYNTAX_ERROR"
    /\ result.error_position = FirstRunStart(input) - 1
    /\ result.error_length = RunLength(input, FirstRunStart(input))

\* a run of two characters after an unclosed parenthesis and collapsed
\* whitespace, so that the offsets in the input and in its normal form differ
C1_Witness ==
  /\ pc = "done"
  /\ ~GrammarValid(input)
  /\ result.parsing_error = "SYNTAX_ERROR"
  /\ result.error_length = 2
  /\ result.error_position >= 2
  /\ Len(input) < Len(expression)
  /\ \E i \in 1..Len(input) : input[i] = "("

(***************************************************************************)
(* Parentheses of a string, by counting.                                   *)
(***************************************************************************)
RECURSIVE CountOf(_, _, _)
\* the number of occurrences of c among the first i characters of s
CountOf(s, c, i) ==
  IF i = 0 THEN 0 ELSE CountOf(s, c, i - 1) + (IF s[i] = c THEN 1 ELSE 0)

ParenDepth(s, i) == CountOf(s, "(", i) - CountOf(s, ")", i)

\* a ")" with no matching "(" open before it
HasUnmatchedRight(s) == \E i \in 1..Len(s) : s[i] = ")" /\ ParenDepth(s, i) < 0

\* a "(" that is never closed
HasUnclosedLeft(s) ==
  \E i \in 1..Len(s) :
    s[i] = "(" /\ \A j \in i..Len(s) : ParenDepth(s, j) >= ParenDepth(s, i)

Unbalanced(s) == HasUnmatchedRight(s) \/ HasUnclosedLeft(s)

ReductionErrors ==
  {"DIVIDE_BY_ZERO", "EXPECTED_CURRENT_VALUE", "EXPECTED_MORE_ARGUMENTS", "IMAGINARY_NUMBER"}

(***************************************************************************)
(* C2 as claimed: every grammar-valid expression with unbalanced or extra  *)
(* parentheses is answered with ParseError MismatchedParens.               *)
(***************************************************************************)
C2_Original ==
  (pc = "done" /\ GrammarValid(input) /\ Unbalanced(input)) =>
    (result.status = "PARSING_ERROR" /\ result.parsing_error = "MISMATCHED_PARENS")

(***************************************************************************)
(* C2 as amended: a grammar-valid expression with unbalanced or extra      *)
(* parentheses is answered with ParseError MismatchedParens, or with the   *)
(* EvalError of a reduction that failed before the mismatch was detected;  *)
(* never with Success, Empty or SyntaxError.                               *)
(***************************************************************************)
C2_MismatchedOrEvalError ==
  (pc = "done" /\ GrammarValid(input) /\ Unbalanced(input)) =>
    \/ result.status = "PARSING_ERROR" /\ result.parsing_error = "MISMATCHED_PARENS"
    \/ result.status = "EVALUATION_ERROR" /\ result.evaluation_error \in ReductionErrors

\* an extra ")" found after a reduction emptied the operator stack
C2_Witness ==
  /\ pc = "done"
  /\ GrammarValid(input)
  /\ HasUnmatchedRight(input)
  /\ result.parsing_error = "MISMATCHED_PARENS"
  /\ result.error_position >= 3
  /\ Len(output) = 1
  /\ \E i \in 1..result.error_position : input[i] = "+"

(***************************************************************************)
(* C3: an expression that is empty or made of whitespace characters only   *)
(* is answered with ParseError Empty.                                      *)
(***************************************************************************)
C3_WhitespaceIsEmpty ==
  (pc = "done" /\ AllIn(expression, GrammarSpaces)) =>
    (result.status = "PARSING_ERROR" /\ result.parsing_error = "EMPTY")

\* four whitespace characters, among them a form feed and a vertical tab
C3_Witness ==
  /\ pc = "done"
  /\ Len(expression) = 4
  /\ AllIn(expression, GrammarSpaces)
  /\ \E i \in 1..4 : expression[i] = "\f"
  /\ \E i \in 1..4 : expression[i] = "VT"
  /\ result.parsing_error = "EMPTY"

(***************************************************************************)
(* C4: once the tokens are exhausted and the operator stack is empty, the  *)
(* result is decided by the number of values left alone: none gives Empty, *)
(* one gives Success with that value, more give SyntaxError; and Success   *)
(* is returned only with one value left and no operator.                   *)
(***************************************************************************)
C4_ByDepth ==
  (pc = "drain" /\ stack = <<>>) =>
    /\ pc' = "done"
    /\ Len(output) = 0 =>
         result'.status = "PARSING_ERROR" /\ result'.parsing_error = "EMPTY"
    /\ Len(output) = 1 =>
         result'.status = "SUCCESS" /\ result'.result = output[1]
    /\ Len(output) >= 2 =>
         result'.status = "PARSING_ERROR" /\ result'.parsing_error = "SYNTAX_ERROR"

C4_SuccessState ==
  result.status = "SUCCESS" =>
    (pc = "done" /\ Len(output) = 1 /\ stack = <<>> /\ result.result = output[1])

C4_Classification == [][C4_ByDepth]_vars /\ []C4_SuccessState

\* two values left, one of them from a parenthesis: SyntaxError without a span
C4_Witness ==
  /\ pc = "done"
  /\ stack = <<>>
  /\ Len(output) = 2
  /\ \E i \in 1..Len(input) : input[i] = ")"
  /\ result.parsing_error = "SYNTAX_ERROR"
  /\ result.error_length = 0

(***************************************************************************)
(* SpecPow: towers of two exponentiations over signed numbers, written     *)
(* bare and with each grouping spelled out in parentheses.                 *)
(***************************************************************************)
MaxPowOperand == 3

PowNumbers == {<<Digits[n + 1]>> : n \in 0..MaxPowOperand} \cup {<<".", "5">>}

PowOperands == PowNumbers \cup {<<"-">> \o n : n \in PowNumbers}

\* "a ^ b ^ c"
Tower(a, b, c) == a \o <<" ", "^", " ">> \o b \o <<" ", "^", " ">> \o c

\* "(a ^ b) ^ c"
TowerLeft(a, b, c) ==
  <<"(">> \o a \o <<" ", "^", " ">> \o b \o <<")", " ", "^", " ">> \o c

\* "a ^ (b ^ c)"
TowerRight(a, b, c) ==
  a \o <<" ", "^", " ", "(">> \o b \o <<" ", "^", " ">> \o c \o <<")">>

PowExpressions ==
  UNION {{Tower(a, b, c), TowerLeft(a, b, c), TowerRight(a, b, c)} :
           a \in PowOperands, b \in PowOperands, c \in PowOperands}

InitPow == InitWith(PowExpressions, {NaN}, {TRUE})

SpecPow == InitPow /\ [][Next]_vars

StartsWith(s, w) == Len(w) <= Len(s) /\ SubSeq(s, 1, Len(w)) = w

\* the number a signed operand denotes
SignedValue(s) == IF s[1] = "-" THEN Negate(Atof(Tail(s))) ELSE Atof(s)

IsImaginary(r) ==
  r.status = "EVALUATION_ERROR" /\ r.evaluation_error = "IMAGINARY_NUMBER"

(***************************************************************************)
(* C5: exponentiation is right-associative: unless an ImaginaryNumber      *)
(* error arises, "a ^ b ^ c" evaluates to pow(a, pow(b, c)), the value of  *)
(* "a ^ (b ^ c)", while "(a ^ b) ^ c" evaluates to pow(pow(a, b), c); and  *)
(* an incoming "^" never reduces a "^" on top of the operator stack: it is *)
(* pushed with the values untouched.                                       *)
(***************************************************************************)
C5_TowerValue ==
  pc = "done" =>
    \A a \in {x \in PowOperands : \/ StartsWith(expression, x)
                                   \/ StartsWith(expression, <<"(">> \o x)},
       b \in PowOperands, c \in PowOperands :
      LET A == SignedValue(a)
          B == SignedValue(b)
          C == SignedValue(c)
      IN  /\ expression \in {Tower(a, b, c), TowerRight(a, b, c)} =>
               (IsImaginary(result) \/ result = Success(Pow(A, Pow(B, C))))
          /\ expression = TowerLeft(a, b, c) =>
               (IsImaginary(result) \/ result = Success(Pow(Pow(A, B), C)))

C5_CaretOnCaret ==
  ( /\ pc = "reduce"
    /\ stack # <<>>
    /\ token.op.type = "EXPONENT"
    /\ Top(stack).op.type = "EXPONENT" ) =>
    (stack' = Push(stack, token) /\ output' = output /\ pc' = "scan")

C5_RightAssociative == [][C5_CaretOnCaret]_vars /\ []C5_TowerValue

\* "2 ^ 2 ^ 3" is 256, where the other grouping would have given 64
C5_Witness ==
  /\ pc = "done"
  /\ expression = Tower(<<"2">>, <<"2">>, <<"3">>)
  /\ result = Success(Q(256))
  /\ Pow(Pow(Q(2), Q(2)), Q(3)) = Q(64)

(***************************************************************************)
(* SpecArith: the well-formed infix expressions of at most MaxTokens       *)
(* tokens over two numbers, the five binary operators, a minus sign before *)
(* an operand and parentheses around a compound expression.                *)
(***************************************************************************)
MaxTokens == 7

ArithNumbers == {<<"2">>, <<"3">>}

ArithSigns == {<<"-">>}

ArithOperators == {<<"+">>, <<"-">>, <<"*">>, <<"/">>, <<"^">>}

\* The well-formed expressions of exactly n tokens over the given numbers,
\* signs and binary operators, from those of fewer tokens (w[k]: those of k
\* tokens); chains tells whether a sign may stand before a sign.
WellFormedOf(w, n, numbers, signs, ops, chains) ==
  (IF n = 1 THEN numbers ELSE {})
  \cup (IF n >= 2 THEN {sg \o x : sg \in signs,
                                 x \in {y \in w[n - 1] : chains \/ <<y[1]>> \notin signs}}
        ELSE {})
  \cup (IF n >= 3 THEN {<<"(">> \o x \o <<")">> : x \in {y \in w[n - 2] : Len(y) > 1}}
        ELSE {})
  \cup UNION {{x \o o \o y : x \in w[i], o \in ops, y \in w[n - 1 - i]} : i \in 1..(n - 2)}

RECURSIVE WellFormedUpTo(_, _, _, _, _)
WellFormedUpTo(n, numbers, signs, ops, chains) ==
  IF n = 0 THEN <<>>
  ELSE LET w == WellFormedUpTo(n - 1, numbers, signs, ops, chains)
       IN  Append(w, WellFormedOf(w, n, numbers, signs, ops, chains))

ArithExpressions ==
  LET w == WellFormedUpTo(MaxTokens, ArithNumbers, ArithSigns, ArithOperators, FALSE)
  IN  UNION {w[n] : n \in 1..MaxTokens}

InitArith == InitWith(ArithExpressions, {NaN}, {TRUE})

SpecArith == InitArith /\ [][Next]_vars

(***************************************************************************)
(* The reference evaluation of an infix expression without whitespace:     *)
(*   expr    := term  (("+" | "-") term)*        grouping left to right    *)
(*   term    := power (("*" | "/") power)*       grouping left to right    *)
(*   power   := unary ("^" power)?               grouping right to left    *)
(*   unary   := ("+" | "-") unary | primary                                *)
(*   primary := number | "(" expr ")"                                      *)
(* A reading is [pos, v, errs, must]: the position after what was read (0  *)
(* when nothing of the kind stands there), its value, the evaluation       *)
(* errors some operation in it may raise, and whether one must.            *)
(***************************************************************************)
RefFail == [pos |-> 0, v |-> NaN, errs |-> {}, must |-> FALSE]

RefCharAt(s, i) == IF i >= 1 /\ i <= Len(s) THEN s[i] ELSE "end"

RECURSIVE RefNumberEnd(_, _)
\* the position after the run of digits and points starting at i
RefNumberEnd(s, i) ==
  IF RefCharAt(s, i) \in GrammarDigits \cup {"."} THEN RefNumberEnd(s, i + 1) ELSE i

\* the reading of "a op b" from the readings of a and b
RefApply(o, a, b) ==
  LET zero == IF o = "/" THEN IsZero3(b.v) ELSE "F"
      imag == IF o = "^" /\ IsNeg3(a.v) # "F" /\ FracPos3(b.v) # "F"
              THEN IF IsNeg3(a.v) = "T" /\ FracPos3(b.v) = "T" THEN "T" ELSE "U"
              ELSE "F"
  IN  [pos  |-> b.pos,
       v    |-> CASE o = "+" -> Add(a.v, b.v)
                  [] o = "-" -> Sub(a.v, b.v)
                  [] o = "*" -> Mul(a.v, b.v)
                  [] o = "/" -> Div(a.v, b.v)
                  [] o = "^" -> Pow(a.v, b.v),
       errs |-> a.errs \cup b.errs
                  \cup (IF zero # "F" THEN {"DIVIDE_BY_ZERO"} ELSE {})
                  \cup (IF imag # "F" THEN {"IMAGINARY_NUMBER"} ELSE {}),
       must |-> a.must \/ b.must \/ zero = "T" \/ imag = "T"]

RECURSIVE RefExpr(_, _), RefExprRest(_, _), RefTerm(_, _), RefTermRest(_, _),
          RefPower(_, _), RefUnary(_, _), RefPrimary(_, _)

RefPrimary(s, i) ==
  IF RefCharAt(s, i) = "("
  THEN LET r == RefExpr(s, i + 1)
       IN  IF r.pos # 0 /\ RefCharAt(s, r.pos) = ")" THEN [r EXCEPT !.pos = r.pos + 1]
           ELSE RefFail
  ELSE LET j == RefNumberEnd(s, i)
       IN  IF j > i /\ IsNumber(SubSeq(s, i, j - 1))
           THEN [pos |-> j, v |-> Atof(SubSeq(s, i, j - 1)), errs |-> {}, must |-> FALSE]
           ELSE RefFail

RefUnary(s, i) ==
  IF RefCharAt(s, i) \in {"+", "-"}
  THEN LET r == RefUnary(s, i + 1)
       IN  IF r.pos = 0 THEN RefFail
           ELSE IF s[i] = "-" THEN [r EXCEPT !.v = Negate(r.v)] ELSE r
  ELSE RefPrimary(s, i)

RefPower(s, i) ==
  LET a == RefUnary(s, i)
  IN  IF a.pos # 0 /\ RefCharAt(s, a.pos) = "^"
      THEN LET b == RefPower(s, a.pos + 1)
           IN  IF b.pos = 0 THEN RefFail ELSE RefApply("^", a, b)
      ELSE a

RefTermRest(s, a) ==
  IF a.pos # 0 /\ RefCharAt(s, a.pos) \in {"*", "/"}
  THEN LET b == RefPower(s, a.pos + 1)
       IN  IF b.pos = 0 THEN RefFail ELSE RefTermRest(s, RefApply(s[a.pos], a, b))
  ELSE a

RefTerm(s, i) == RefTermRest(s, RefPower(s, i))

RefExprRest(s, a) ==
  IF a.pos # 0 /\ RefCharAt(s, a.pos) \in {"+", "-"}
  THEN LET b == RefTerm(s, a.pos + 1)
       IN  IF b.pos = 0 THEN RefFail ELSE RefExprRest(s, RefApply(s[a.pos], a, b))
  ELSE a

RefExpr(s, i) == RefExprRest(s, RefTerm(s, i))

\* the reading of the whole of s
Reference(s) ==
  LET r == RefExpr(s, 1) IN IF r.pos = Len(s) + 1 THEN r ELSE RefFail

IsInfix(s) == Reference(s).pos # 0

(***************************************************************************)
(* C6: in the loop of an incoming operator other than a parenthesis, the   *)
(* operator on top of the stack is popped and evaluated exactly when the   *)
(* incoming one is left-associative with precedence <= the top's, or       *)
(* right-associative with precedence < the top's; otherwise, and always    *)
(* with "(" on top or an empty stack, the incoming operator is pushed and  *)
(* the values are untouched.  And the result of a well-formed infix        *)
(* expression is that of the reference evaluation: the same value, or one  *)
(* of the evaluation errors the reference may raise.                       *)
(***************************************************************************)
C6_Condition(op, top) ==
  \/ op.associativity = "LEFT" /\ op.precedence <= top.precedence
  \/ op.associativity = "RIGHT" /\ op.precedence < top.precedence

C6_ReduceRule ==
  pc = "reduce" =>
    IF stack # <<>> /\ C6_Condition(token.op, Top(stack).op)
    THEN /\ Top(stack).op.type # "PAREN_L"
         /\ \E o \in BOOLEAN \X BOOLEAN :
              LET r == Eval(Top(stack).op, output, use_degrees, current_value, o[1], o[2])
              IN  /\ output' = r.values
                  /\ \/ r.error = "NONE" /\ stack' = Pop(stack) /\ pc' = "reduce"
                     \/ /\ r.error # "NONE"
                        /\ pc' = "done"
                        /\ result'.status = "EVALUATION_ERROR"
                        /\ result'.evaluation_error = r.error
    ELSE stack' = Push(stack, token) /\ output' = output /\ pc' = "scan"

C6_ReferenceValue ==
  (pc = "done" /\ IsInfix(expression)) =>
    LET r == Reference(expression)
    IN  \/ result = Success(r.v) /\ ~r.must
        \/ result.status = "EVALUATION_ERROR" /\ result.evaluation_error \in r.errs

C6_Precedence == [][C6_ReduceRule]_vars /\ []C6_ReferenceValue

\* three levels of precedence in one expression: 2 - (3 * (2 ^ 2))
C6_Witness ==
  /\ pc = "done"
  /\ expression = <<"2", "-", "3", "*", "2", "^", "2">>
  /\ IsInfix(expression)
  /\ result = Success(Q(-10))

(***************************************************************************)
(* SpecSign: sums and differences of two numbers with chains of signs      *)
(* before the operands, parentheses included, and the chain of the tests.  *)
(***************************************************************************)
MaxSignTokens == 6

SignNumbers == {<<"1">>, <<"2">>}

Signs == {<<"+">>, <<"-">>}

\* "+-+-1++--++--++--+2-3+4"
TestChain ==
  <<"+", "-", "+", "-", "1", "+", "+", "-", "-", "+", "+", "-", "-", "+", "+", "-", "-", "+",
    "2", "-", "3", "+", "4">>

SignExpressions ==
  LET w == WellFormedUpTo(MaxSignTokens, SignNumbers, Signs, Signs, TRUE)
  IN  UNION {w[n] : n \in 1..MaxSignTokens} \cup {TestChain}

InitSign == InitWith(SignExpressions, {NaN}, {TRUE})

SpecSign == InitSign /\ [][Next]_vars

(***************************************************************************)
(* The reading of a sum with chains of signs, as [pos, v]:                 *)
(*   sum     := signed (("+" | "-") signed)*    the sign after an operand  *)
(*                                              is binary                  *)
(*   signed  := chain operand      the operand, negated iff the chain has  *)
(*                                 an odd number of "-"                    *)
(*   operand := number | "(" sum ")"                                       *)
(***************************************************************************)
RECURSIVE ChainEnd(_, _)
\* the position after the run of signs starting at i
ChainEnd(s, i) == IF RefCharAt(s, i) \in {"+", "-"} THEN ChainEnd(s, i + 1) ELSE i

\* the number of "-" in positions i..j-1
MinusCount(s, i, j) == Cardinality({k \in i..(j - 1) : s[k] = "-"})

SumFail == [pos |-> 0, v |-> NaN]

RECURSIVE SumOf(_, _), SumRest(_, _), SignedOperand(_, _)

SignedOperand(s, i) ==
  LET j == ChainEnd(s, i)
      e == RefNumberEnd(s, j)
      operand ==
        IF RefCharAt(s, j) = "("
        THEN LET r == SumOf(s, j + 1)
             IN  IF r.pos # 0 /\ RefCharAt(s, r.pos) = ")" THEN [r EXCEPT !.pos = r.pos + 1]
                 ELSE SumFail
        ELSE IF e > j /\ IsNumber(SubSeq(s, j, e - 1))
             THEN [pos |-> e, v |-> Atof(SubSeq(s, j, e - 1))]
             ELSE SumFail
  IN  IF operand.pos = 0 THEN SumFail
      ELSE IF MinusCount(s, i, j) % 2 = 1
           THEN [operand EXCEPT !.v = Sub(Q(0), operand.v)]
           ELSE operand

SumRest(s, a) ==
  IF a.pos # 0 /\ RefCharAt(s, a.pos) \in {"+", "-"}
  THEN LET b == SignedOperand(s, a.pos + 1)
       IN  IF b.pos = 0 THEN SumFail
           ELSE SumRest(s, [pos |-> b.pos,
                            v   |-> IF s[a.pos] = "+" THEN Add(a.v, b.v) ELSE Sub(a.v, b.v)])
  ELSE a

SumOf(s, i) == SumRest(s, SignedOperand(s, i))

SignedSum(s) == LET r == SumOf(s, 1) IN IF r.pos = Len(s) + 1 THEN r ELSE SumFail

\* s has a chain of at least k signs
HasChain(s, k) == \E i \in 1..Len(s) : ChainEnd(s, i) >= i + k

(***************************************************************************)
(* C7: a chain of signs standing at the start, after a binary operator or  *)
(* after "(" and before a number or a parenthesized operand evaluates to   *)
(* the operand negated iff the chain holds an odd number of "-", and the   *)
(* first sign after an operand is the binary operator: every sum written   *)
(* with such chains succeeds with the value read that way.                 *)
(***************************************************************************)
C7_ChainCollapses ==
  (pc = "done" /\ SignedSum(expression).pos # 0) =>
    result = Success(SignedSum(expression).v)

\* the chain of the tests gives 1 + 2 - 3 + 4
C7_Witness ==
  /\ pc = "done"
  /\ expression = TestChain
  /\ HasChain(expression, 9)
  /\ SignedSum(expression).v = Q(4)
  /\ result = Success(Q(4))

(***************************************************************************)
(* SpecEdge: the tokens that set and clear the edge flag: a number, the    *)
(* two signs, parentheses, a postfix operator and a constant.              *)
(***************************************************************************)
MaxEdgePieces == 4

EdgePieces == { <<"1">>, <<"+">>, <<"-">>, <<"(">>, <<")">>, <<"%">>, <<"p", "i">> }

InitEdge == InitWith(Concatenations(EdgePieces, MaxEdgePieces), {NaN}, {TRUE})

SpecEdge == InitEdge /\ [][Next]_vars

(***************************************************************************)
(* C8: the flag is "edge" before the first token; reading a token sets it  *)
(* to "edge" iff the token is an operator other than ")" (so a number and  *)
(* ")" set it to "non-edge"), and nothing else changes it; a "+" or "-"    *)
(* resolves to UNARY_PLUS or UNARY_MINUS iff the flag is "edge" when the   *)
(* token is read, and to ADD or SUBTRACT otherwise.                        *)
(***************************************************************************)
TokenRead == pc = "scan" /\ it' # it

IsNumberLexeme(w) == w # <<>> /\ w[1] \in GrammarDigits \cup {"."}

C8_FlagStep ==
  TokenRead =>
    /\ left_is_edge' = (~IsNumberLexeme(token'.string) /\ token'.string # <<")">>)
    /\ token'.string = <<"+">> =>
         token'.op.type = (IF left_is_edge THEN "UNARY_PLUS" ELSE "ADD")
    /\ token'.string = <<"-">> =>
         token'.op.type = (IF left_is_edge THEN "UNARY_MINUS" ELSE "SUBTRACT")

C8_FlagKept == ~TokenRead => left_is_edge' = left_is_edge

C8_InitialEdge == (pc \in {"start", "verify"} \/ (pc = "scan" /\ it = 1)) => left_is_edge

C8_EdgeFlag == [][C8_FlagStep /\ C8_FlagKept]_vars /\ []C8_InitialEdge

\* a "-" read right after ")" is SUBTRACT and sets the flag again
C8_Witness ==
  /\ token.string = <<"-">>
  /\ token.position >= 3
  /\ input[token.position] = ")"
  /\ token.op.type = "SUBTRACT"
  /\ left_is_edge

(***************************************************************************)
(* SpecCurrent: the postfix operators of the current value among a number, *)
(* a sign and parentheses, without a current value and with two current    *)
(* values, and the expressions of the tests that lack an operand.          *)
(***************************************************************************)
MaxCurrentPieces == 4

CurrentPieces == { <<"5", "0">>, <<"%">>, <<"x">>, <<"(">>, <<")">>, <<"+">> }

\* "50X"
UpperCaseTimes == <<"5", "0", "X">>

\* "-", "--", "1 *", "(1 + ) + 1"
LackingOperand ==
  { <<"-">>, <<"-", "-">>, <<"1", " ", "*">>,
    <<"(", "1", " ", "+", " ", ")", " ", "+", " ", "1">> }

CurrentValues == {NaN, Q(1), Q(2)}

InitCurrent ==
  InitWith(Concatenations(CurrentPieces, MaxCurrentPieces) \cup LackingOperand
             \cup {UpperCaseTimes},
           CurrentValues, {TRUE})

SpecCurrent == InitCurrent /\ [][Next]_vars

\* the step about to be taken evaluates the operator on top of the stack
Evaluating ==
  \/ pc = "reduce" /\ stack # <<>> /\ Reduces(token.op, Top(stack).op)
  \/ pc = "rparen" /\ Top(stack).op.type # "PAREN_L"
  \/ pc = "drain" /\ stack # <<>> /\ Top(stack).op.type # "PAREN_L"

Fails(r, kind) == r.status = "EVALUATION_ERROR" /\ r.evaluation_error = kind

(***************************************************************************)
(* C9: when "%" or "x" is evaluated with a value v on the value stack, a   *)
(* NaN current value c makes the evaluation fail with                      *)
(* ExpectedCurrentValue; otherwise v is replaced by v * c / 100 for "%"    *)
(* and by v * c for "x".  So "50%" fails with ExpectedCurrentValue without *)
(* a current value and is 0.5 with the current value 1.                    *)
(***************************************************************************)
C9_Evaluation ==
  (Evaluating /\ Top(stack).op.type \in {"PERCENTAGE", "TIMES"} /\ Len(output) >= 1) =>
    LET v == Top(output)
        c == current_value
    IN  IF IsNaN(c)
        THEN pc' = "done" /\ Fails(result', "EXPECTED_CURRENT_VALUE")
        ELSE /\ output' = Push(Pop(output),
                               IF Top(stack).op.type = "PERCENTAGE"
                               THEN Div(Mul(v, c), Q(100)) ELSE Mul(v, c))
             /\ stack' = Pop(stack)
             /\ result'.status # "EVALUATION_ERROR"

C9_FiftyPercent ==
  (pc = "done" /\ expression = <<"5", "0", "%">>) =>
    IF IsNaN(current_value) THEN Fails(result, "EXPECTED_CURRENT_VALUE")
    ELSE result = Success(Div(Mul(Q(50), current_value), Q(100)))

C9_CurrentValue == [][C9_Evaluation]_vars /\ []C9_FiftyPercent

\* "50%" with the current value 1 is 0.5
C9_Witness ==
  /\ pc = "done"
  /\ expression = <<"5", "0", "%">>
  /\ current_value = Q(1)
  /\ result = Success([k |-> "q", n |-> 1, d |-> 2, args |-> <<>>])

(***************************************************************************)
(* C10: every evaluation of an operator with fewer values on the value     *)
(* stack than its arity fails with ExpectedMoreArguments, whatever the     *)
(* operator and the current value, and leaves the value stack as it was.   *)
(* So "+", "-", "--", "1 *" and "(1 + ) + 1" give ExpectedMoreArguments.   *)
(***************************************************************************)
C10_Evaluation ==
  (Evaluating /\ Len(output) < Top(stack).op.degree) =>
    /\ pc' = "done"
    /\ Fails(result', "EXPECTED_MORE_ARGUMENTS")
    /\ output' = output

C10_Examples ==
  (pc = "done" /\ expression \in LackingOperand \cup {<<"+">>}) =>
    Fails(result, "EXPECTED_MORE_ARGUMENTS")

C10_ArityFirst == [][C10_Evaluation]_vars /\ []C10_Examples

\* "%" alone without a current value: the missing operand is reported, not
\* the missing current value
C10_Witness ==
  /\ pc = "done"
  /\ input = <<"%">>
  /\ IsNaN(current_value)
  /\ output = <<>>
  /\ Fails(result, "EXPECTED_MORE_ARGUMENTS")

(***************************************************************************)
(* C11: in every evaluation of "^" with base a and exponent b, a < 0 with  *)
(* b not an integer (of either sign) fails with ImaginaryNumber, so that   *)
(* no Success follows; in every other case pow(a, b) is pushed.  Stated on *)
(* the bases and exponents whose value the model knows.                    *)
(***************************************************************************)
IsKnown(v) == v.k \in {"q", "rnd"}

IsInteger(v) == v.k = "q" /\ v.d = 1

C11_Evaluation ==
  (Evaluating /\ Top(stack).op.type = "EXPONENT" /\ Len(output) >= 2) =>
    LET b == Top(output)
        a == Top(Pop(output))
    IN  (IsKnown(a) /\ IsKnown(b)) =>
          IF a.n < 0 /\ ~IsInteger(b)
          THEN pc' = "done" /\ Fails(result', "IMAGINARY_NUMBER")
          ELSE /\ output' = Push(Pop(Pop(output)), Pow(a, b))
               /\ result'.status # "EVALUATION_ERROR"

C11_ImaginaryNumber == [][C11_Evaluation]_vars

\* the same with the exponents the code does catch: b > 0
C11_PositiveEvaluation ==
  (Evaluating /\ Top(stack).op.type = "EXPONENT" /\ Len(output) >= 2) =>
    LET b == Top(output)
        a == Top(Pop(output))
    IN  (IsKnown(a) /\ IsKnown(b) /\ a.n < 0 /\ ~IsInteger(b) /\ b.n > 0) =>
          (pc' = "done" /\ Fails(result', "IMAGINARY_NUMBER"))

C11_PositiveExponent == [][C11_PositiveEvaluation]_vars

\* "-2 ^ -.5 ^ 1": pow(-2, -0.5) is evaluated and its NaN returned as a Success
C11_Witness ==
  /\ pc = "done"
  /\ expression = Tower(<<"-", "2">>, <<"-", ".", "5">>, <<"1">>)
  /\ result = Success(NaN)

(***************************************************************************)
(* SpecCase: a caller evaluates an expression written in lower case and    *)
(* then the same expression with the case of some letters changed, with    *)
(* the same configuration and current value, keeping the first Result.     *)
(* The expressions are made of a number, the letter of the exponent and of *)
(* Euler's number, a constant, the letter of the current value and a       *)
(* parenthesis, or are one of the keywords applied to an operand.          *)
(***************************************************************************)
MaxCasePieces == 3

CasePieces == { <<"1">>, <<"e">>, <<"p", "i">>, <<"x">>, <<"(">> }

\* "sin(pi)", "cos1", "tan1", "cot1", "csc1", "sec1", "tau"
KeywordExpressions ==
  { <<"s", "i", "n", "(", "p", "i", ")">>, <<"c", "o", "s", "1">>, <<"t", "a", "n", "1">>,
    <<"c", "o", "t", "1">>, <<"c", "s", "c", "1">>, <<"s", "e", "c", "1">>, <<"t", "a", "u">> }

UpperOf(c) ==
  IF \E i \in 1..Len(LowerCase) : LowerCase[i] = c
  THEN UpperCase[CHOOSE i \in 1..Len(LowerCase) : LowerCase[i] = c]
  ELSE c

RECURSIVE CaseVariants(_)
\* the spellings of the lower-case s with any of its letters in upper case
CaseVariants(s) ==
  IF s = <<>> THEN {<<>>}
  ELSE {<<c>> \o t : c \in {Head(s), UpperOf(Head(s))}, t \in CaseVariants(Tail(s))}

InitCase ==
  \/ InitWith(Concatenations(CasePieces, MaxCasePieces), {NaN, Q(2)}, {TRUE})
  \/ InitWith(KeywordExpressions, {NaN}, BOOLEAN)

\* the caller's next call: the earlier Result is kept, the locals are new
CallAgain ==
  /\ pc = "done"
  /\ earlier = NoResult
  /\ \E e \in CaseVariants(expression) \ {expression} : expression' = e
  /\ earlier' = result
  /\ input' = <<>>
  /\ it' = 1
  /\ left_is_edge' = TRUE
  /\ output' = <<>>
  /\ stack' = <<>>
  /\ token' = null_token
  /\ pc' = "start"
  /\ result' = NoResult
  /\ UNCHANGED <<current_value, use_degrees, statics>>

NextCase ==
  \/ NormalizeInput
  \/ VerifyInput
  \/ NextToken
  \/ ReduceStep
  \/ RParenStep
  \/ EndOfTokens
  \/ DrainStep
  \/ Finish
  \/ CallAgain

SpecCase == InitCase /\ [][NextCase]_vars

(***************************************************************************)
(* C12: evaluation is case-insensitive: with the same configuration and    *)
(* current value, an expression and the expression with the case of any of *)
(* its letters changed get the same Result: the same status, the same      *)
(* value or kind of error, the same error position and error length.       *)
(***************************************************************************)
SameResult(r, q) ==
  /\ r.status = q.status
  /\ r.parsing_error = q.parsing_error
  /\ r.evaluation_error = q.evaluation_error
  /\ r.status = "SUCCESS" => r.result = q.result
  /\ r.error_position = q.error_position
  /\ r.error_length = q.error_length

C12_CaseInsensitive ==
  (pc = "done" /\ earlier # NoResult) => SameResult(earlier, result)

\* "sin(PI)" after "sin(pi)", or the like: a keyword and a constant, one of
\* them in upper case, evaluated to the same value
C12_Witness ==
  /\ pc = "done"
  /\ earlier.status = "SUCCESS"
  /\ result = earlier
  /\ \E i \in 1..Len(expression) : expression[i] = "P"
  /\ \E i \in 1..Len(expression) : expression[i] = "s"
  /\ input # expression

(***************************************************************************)
(* SpecError: expressions whose reductions fail in the loop of an incoming *)
(* operator, in the loop of ")" and in the loop after the last token: a    *)
(* number, a sign, a function, a postfix operator, parentheses and a       *)
(* space, without a current value.                                         *)
(***************************************************************************)
MaxErrorPieces == 4

ErrorPieces ==
  { <<"1">>, <<"-">>, <<"s", "i", "n">>, <<"%">>, <<"(">>, <<")">>, <<" ">> }

InitError == InitWith(Concatenations(ErrorPieces, MaxErrorPieces), {NaN}, {TRUE})

SpecError == InitError /\ [][Next]_vars

(***************************************************************************)
(* C13: a reduction that fails ends the evaluation in that step, with an   *)
(* EvalError that carries the position and the lexeme length of the token  *)
(* being processed: in the token loop the token read last (the incoming    *)
(* operator or ")"), which ends right before the iterator, and in the loop *)
(* after the last token the operator on top of the stack, whose evaluation *)
(* failed.  The span is the place of that lexeme in the normalized input.  *)
(***************************************************************************)
\* the Result r marks the lexeme w at the 0-based position p of the input
Marks(r, w, p) ==
  /\ r.error_position = p
  /\ r.error_length = Len(w)
  /\ p + Len(w) <= Len(input)
  /\ SubSeq(input, p + 1, p + Len(w)) = w

C13_Evaluation ==
  (Evaluating /\ result'.status = "EVALUATION_ERROR") =>
    /\ pc' = "done"
    /\ result'.evaluation_error
         \in {"EXPECTED_MORE_ARGUMENTS", "EXPECTED_CURRENT_VALUE", "DIVIDE_BY_ZERO",
              "IMAGINARY_NUMBER"}
    /\ pc \in {"reduce", "rparen"} =>
         /\ Marks(result', token.string, token.position)
         /\ token.position + Len(token.string) = it - 1
         /\ pc = "rparen" <=> token.string = <<")">>
    /\ pc = "drain" =>
         /\ Marks(result', Top(stack).string, Top(stack).position)
         /\ Top(stack).op.type \notin {"PAREN_L", "PAREN_R"}

\* an EvalError comes from a failed reduction only, and nothing follows it
C13_OnlyFromReduction ==
  (result.status # "EVALUATION_ERROR" /\ result'.status = "EVALUATION_ERROR") => Evaluating

C13_Final == result.status = "EVALUATION_ERROR" => (result' = result /\ pc' = pc)

C13_ErrorSpan == [][C13_Evaluation /\ C13_OnlyFromReduction /\ C13_Final]_vars

\* a failed reduction forced by an incoming "sin": the span is its three
\* letters, after a space that moves them
C13_Witness ==
  /\ pc = "done"
  /\ result.status = "EVALUATION_ERROR"
  /\ result.error_length = 3
  /\ result.error_position >= 2
  /\ token.string = <<"s", "i", "n">>
  /\ stack # <<>>
  /\ \E i \in 1..Len(input) : input[i] = " "

(***************************************************************************)
(* The normalized form, stated on positions: of every run of whitespace    *)
(* one character is kept and reads as a space, every other character is    *)
(* kept, and an upper-case letter reads as its lower-case letter.          *)
(***************************************************************************)
KeptPositions(s) ==
  {i \in 1..Len(s) : ~(s[i] \in GrammarSpaces /\ i > 1 /\ s[i - 1] \in GrammarSpaces)}

IsUpperCase(c) == \E i \in 1..Len(UpperCase) : UpperCase[i] = c

\* the character d is what c reads as
ReadsAs(c, d) ==
  IF c \in GrammarSpaces THEN d = " "
  ELSE IF IsUpperCase(c) THEN d # c /\ UpperOf(d) = c
  ELSE d = c

IsNormalizedOf(n, s) ==
  /\ Len(n) = Cardinality(KeptPositions(s))
  /\ \A i \in KeptPositions(s) :
       ReadsAs(s[i], n[Cardinality({k \in KeptPositions(s) : k <= i})])

IsError(r) == r.status \in {"PARSING_ERROR", "EVALUATION_ERROR"}

(***************************************************************************)
(* C14 as claimed: every ParseError and every EvalError carries the        *)
(* normalized expression, Empty and the SyntaxError for more than one      *)
(* value left included.                                                    *)
(***************************************************************************)
C14_Original ==
  (pc = "done" /\ IsError(result)) => IsNormalizedOf(result.filtered_expression, expression)

(***************************************************************************)
(* C14: an error found at a place of the input carries the normalized      *)
(* expression: the SyntaxError of the verification, MismatchedParens and   *)
(* every EvalError.  The two errors of the final classification, Empty     *)
(* (no value left) and SyntaxError (more than one value left), carry an    *)
(* empty expression, position 0 and length 0.                              *)
(***************************************************************************)
C14_FromClassification ==
  /\ result.status = "PARSING_ERROR"
  /\ \/ result.parsing_error = "EMPTY"
     \/ result.parsing_error = "SYNTAX_ERROR" /\ GrammarValid(input)

C14_ExpressionCarried ==
  (pc = "done" /\ IsError(result)) =>
    /\ IsNormalizedOf(input, expression)
    /\ IF C14_FromClassification
       THEN /\ result.filtered_expression = <<>>
            /\ result.error_position = 0
            /\ result.error_length = 0
            /\ stack = <<>>
            /\ result.parsing_error = "EMPTY" <=> output = <<>>
            /\ result.parsing_error = "SYNTAX_ERROR" <=> Len(output) > 1
       ELSE result.filtered_expression = input

\* an EvalError for "Sin" with a run of two spaces: it carries the folded,
\* collapsed expression
C14_Witness ==
  /\ pc = "done"
  /\ result.status = "EVALUATION_ERROR"
  /\ result.filtered_expression # expression
  /\ Len(result.filtered_expression) = 4
  /\ Len(expression) = 5
  /\ \E i \in 1..Len(expression) : expression[i] = "S"

(***************************************************************************)
(* SpecRegistry: threads that use the function-local statics of            *)
(* Operator::from_type, init_operator_map and unary_operator_function.  Of *)
(* an evaluation call only its uses of these statics are steps here.  A    *)
(* static with a dynamic initializer is initialized by the first thread    *)
(* whose control passes its declaration; a thread that arrives during the  *)
(* initialization waits for its end (the rule of the language for block    *)
(* scope statics).  The bool initialized has no initializer: it is false   *)
(* from the start, and reading and writing it are plain accesses.          *)
(***************************************************************************)
\* the types Token::id_to_operator passes to from_type
CalledTypes == {"NONE", "ADD", "SINE"}

\* the types Operator::eval passes to unary_operator_function (line 230)
CalledFunctions == {"SINE", "COSINE"}

InitRegistry ==
  /\ expression = <<>>
  /\ current_value = NaN
  /\ use_degrees = TRUE
  /\ input = <<>>
  /\ it = 1
  /\ left_is_edge = TRUE
  /\ output = <<>>
  /\ stack = <<>>
  /\ token = null_token
  /\ pc = "start"
  /\ result = NoResult
  /\ earlier = NoResult
  /\ once = [n \in Statics |-> "no"]
  /\ initialized = FALSE
  /\ map = {}
  /\ operator_map = {}
  /\ unary_functions = {}
  /\ thread = [t \in Threads |-> Idle]

locals == <<expression, current_value, use_degrees, input, it, left_is_edge,
            output, stack, token, pc, result, earlier>>

At_(t, where) == thread[t].pc = where

Goto(t, where) == thread' = [thread EXCEPT ![t].pc = where]

\* a thread whose control passes the declaration of an uninitialized static
\* runs its initializer, without regard to a thread that is running it
Claims_Unguarded(name) == once[name] # "yes"

\* the thread that finds the static uninitialized runs its initializer
Claims(name) == once[name] = "no"

\* line 359: Token::id_to_operator calls Operator::from_type
CallFromType(t) ==
  /\ At_(t, "idle")
  /\ \E type \in CalledTypes :
       thread' = [thread EXCEPT ![t] = [pc |-> "from_type", type |-> type, i |-> 0]]
  /\ UNCHANGED <<locals, once, initialized, map, operator_map, unary_functions>>

\* line 181: the declaration of _operator_map
EnterFromType(t) ==
  /\ At_(t, "from_type")
  /\ IF once["_operator_map"] = "yes"
     THEN Goto(t, "find") /\ UNCHANGED once
     ELSE /\ Claims("_operator_map")
          /\ once' = [once EXCEPT !["_operator_map"] = "running"]
          /\ Goto(t, "init_operator_map")
  /\ UNCHANGED <<locals, initialized, map, operator_map, unary_functions>>

\* lines 140-141: the declaration of map (default constructed, empty)
DeclareMap(t) ==
  /\ At_(t, "init_operator_map")
  /\ IF Claims("map")
     THEN map' = {} /\ once' = [once EXCEPT !["map"] = "yes"]
     ELSE UNCHANGED <<map, once>>
  /\ Goto(t, "test")
  /\ UNCHANGED <<locals, initialized, operator_map, unary_functions>>

\* line 142: if (!initialized)
TestInitialized(t) ==
  /\ At_(t, "test")
  /\ Goto(t, IF initialized THEN "return" ELSE "set")
  /\ UNCHANGED <<locals, once, initialized, map, operator_map, unary_functions>>

\* lines 143-169: initialized = true, the declaration of operators
SetInitialized(t) ==
  /\ At_(t, "set")
  /\ initialized' = TRUE
  /\ once' = [once EXCEPT !["operators"] = "yes"]
  /\ thread' = [thread EXCEPT ![t].pc = "fill", ![t].i = 1]
  /\ UNCHANGED <<locals, map, operator_map, unary_functions>>

\* lines 170-172: one iteration of the loop: map.insert keeps a present key
InsertOperator(t) ==
  /\ At_(t, "fill")
  /\ LET i == thread[t].i
     IN  IF i <= Len(operators)
         THEN /\ map' = IF \E o \in map : o.type = operators[i].type
                        THEN map ELSE map \cup {operators[i]}
              /\ thread' = [thread EXCEPT ![t].i = i + 1]
         ELSE /\ thread' = [thread EXCEPT ![t].pc = "return", ![t].i = 0]
              /\ UNCHANGED map
  /\ UNCHANGED <<locals, once, initialized, operator_map, unary_functions>>

\* lines 174, 181: return map; _operator_map is copy constructed from it
CopyMap(t) ==
  /\ At_(t, "return")
  /\ operator_map' = map
  /\ once' = [once EXCEPT !["_operator_map"] = "yes"]
  /\ Goto(t, "find")
  /\ UNCHANGED <<locals, initialized, map, unary_functions>>

\* lines 182-183: _operator_map.find(type)
Find(t) ==
  /\ At_(t, "find")
  /\ thread' = [thread EXCEPT ![t] = Idle]
  /\ UNCHANGED <<locals, once, initialized, map, operator_map, unary_functions>>

\* line 230: Operator::eval calls unary_operator_function
CallUnaryFunction(t) ==
  /\ At_(t, "idle")
  /\ \E type \in CalledFunctions :
       thread' = [thread EXCEPT ![t] = [pc |-> "unary_operator_function",
                                        type |-> type, i |-> 0]]
  /\ UNCHANGED <<locals, once, initialized, map, operator_map, unary_functions>>

\* lines 123-130: the declaration of unary_functions with its six pairs
DeclareUnaryFunctions(t) ==
  /\ At_(t, "unary_operator_function")
  /\ IF once["unary_functions"] = "yes"
     THEN UNCHANGED <<unary_functions, once>>
     ELSE /\ Claims("unary_functions")
          /\ unary_functions' = unary_function_keys
          /\ once' = [once EXCEPT !["unary_functions"] = "yes"]
  /\ Goto(t, "index")
  /\ UNCHANGED <<locals, initialized, map, operator_map>>

\* line 131: unary_functions[type], which inserts a key that is not there
IndexUnaryFunctions(t) ==
  /\ At_(t, "index")
  /\ unary_functions' = unary_functions \cup {thread[t].type}
  /\ thread' = [thread EXCEPT ![t] = Idle]
  /\ UNCHANGED <<locals, once, initialized, map, operator_map>>

NextRegistry ==
  \E t \in Threads :
    \/ CallFromType(t)
    \/ EnterFromType(t)
    \/ DeclareMap(t)
    \/ TestInitialized(t)
    \/ SetInitialized(t)
    \/ InsertOperator(t)
    \/ CopyMap(t)
    \/ Find(t)
    \/ CallUnaryFunction(t)
    \/ DeclareUnaryFunctions(t)
    \/ IndexUnaryFunctions(t)

SpecRegistry == InitRegistry /\ [][NextRegistry]_vars

(***************************************************************************)
(* C15: the operator registry is initialised exactly once when several     *)
(* threads make their first call at the same time: one thread at most is   *)
(* inside the initialization, the table is written only during that one    *)
(* initialization, a thread that looks a type up finds the whole table     *)
(* (what Operator::from_type gives for every type), and once a static is   *)
(* initialized no step of any call changes it.                             *)
(***************************************************************************)
InInitialization(t) ==
  thread[t].pc \in {"init_operator_map", "test", "set", "fill", "return"}

\* what _operator_map.find(type) gives (lines 182-183)
Found(type) ==
  IF \E o \in operator_map : o.type = type
  THEN CHOOSE o \in operator_map : o.type = type
  ELSE null_operator

C15_WholeTable ==
  /\ \A t \in Threads :
       At_(t, "find") =>
         /\ once["_operator_map"] = "yes"
         /\ Cardinality(operator_map) = Len(operators)
         /\ \A i \in 1..Len(operators) : Found(operators[i].type) = operators[i]
         /\ Found(thread[t].type) = from_type(thread[t].type)
  /\ \A t \in Threads : At_(t, "index") => unary_functions = unary_function_keys
  /\ \A t, u \in Threads : (InInitialization(t) /\ InInitialization(u)) => t = u

C15_Step ==
  /\ \A n \in Statics :
       /\ once[n] = "yes" => once'[n] = "yes"
       /\ once[n] = "running" => once'[n] # "no"
  /\ initialized => initialized'
  /\ <<map, operator_map>> # <<map', operator_map'>> => once["_operator_map"] = "running"
  /\ once["_operator_map"] = "yes" => UNCHANGED <<initialized, map, operator_map>>
  /\ once["unary_functions"] = "yes" => UNCHANGED unary_functions
  /\ \A t \in Threads :
       (At_(t, "set") /\ ~At_(t, "set")') => (map = {} /\ ~initialized)

C15_InitialisedOnce == []C15_WholeTable /\ [][C15_Step]_vars

\* one thread has filled a part of the table, a second one waits at the
\* declaration of _operator_map, a third one is in unary_operator_function
C15_Witness ==
  \E t, u, w \in Threads :
    /\ At_(t, "fill") /\ thread[t].i = 5 /\ Cardinality(map) = 4
    /\ At_(u, "from_type")
    /\ At_(w, "index")

(***************************************************************************)
(* SpecTotal: every kind of token in every order, up to a number of        *)
(* pieces, without a current value; and expressions with the other         *)
(* operators, with and without a current value, in degrees and in radians. *)
(***************************************************************************)
MaxTotalPieces == 4

TotalPieces == { <<"1">>, <<"-">>, <<"/">>, <<"%">>, <<"p", "i">>, <<"(">>, <<")">> }

TotalExpressions ==
  { <<"s", "i", "n", "1">>, <<"s", "i", "n">>, <<"1", "^", "1">>, <<"^">>, <<"1", " ", "1">>,
    <<" ">>, <<"#">>, <<"1", "x">>, <<"x">>, <<"X", "*", "(", "+", "E", ")">>,
    <<".", "5", "e", "1">>, <<"t", "a", "u", "(">>, <<"c", "o", "s", ")">> }

InitTotal ==
  \/ InitWith(Concatenations(TotalPieces, MaxTotalPieces), {NaN}, {TRUE})
  \/ InitWith(TotalExpressions, {NaN, Q(2)}, BOOLEAN)

SpecTotal == InitTotal /\ [][Next]_vars

(***************************************************************************)
(* C16: no violation of an internal contract is reachable: no Result is    *)
(* EvalError UnexpectedToken, because no token of type NONE is scanned and *)
(* no parenthesis or null operator is evaluated; the operator that enters  *)
(* the reduction loop has an associativity, so the assertion holds; the    *)
(* operator stack is not empty where its top is read, and an operator is   *)
(* applied only to as many values as it takes, a lack of them being        *)
(* answered with ExpectedMoreArguments; and every call returns, since each *)
(* step brings it nearer to its return.                                    *)
(***************************************************************************)
\* the characters the token iterator has not passed
Remaining == Len(input) - it + 1

\* a bound on the steps a call has left
StepsLeft ==
  CASE pc = "start"  -> 3 * Len(expression) + 4
    [] pc = "verify" -> 3 * Len(input) + 3
    [] pc = "scan"   -> 3 * Remaining + Len(stack) + 2
    [] pc \in {"reduce", "rparen"} -> 3 * Remaining + Len(stack) + 4
    [] pc = "drain"  -> Len(stack) + 1
    [] pc = "done"   -> 0

C16_NoViolation ==
  /\ pc \in {"start", "verify", "scan", "reduce", "rparen", "drain", "done"}
  /\ StepsLeft >= 0
  /\ pc = "done" <=> result # NoResult
  /\ result.evaluation_error # "UNEXPECTED_TOKEN"
  /\ token.type = "NONE" => token = null_token /\ pc \in {"start", "verify", "scan", "drain", "done"}
  /\ pc \in {"reduce", "rparen"} => token.type = "OPERATOR" /\ token.op.type # "NONE"
  /\ pc = "reduce" => token.op.associativity \in {"LEFT", "RIGHT"}
  /\ pc = "rparen" => stack # <<>>
  /\ \A i \in 1..Len(stack) :
       stack[i].type = "OPERATOR" /\ stack[i].op.type \notin {"NONE", "PAREN_R"}

C16_Evaluation ==
  Evaluating =>
    LET op == Top(stack).op
    IN  /\ op.type \notin {"NONE", "PAREN_L", "PAREN_R"}
        /\ IF Len(output) < op.degree
           THEN Fails(result', "EXPECTED_MORE_ARGUMENTS") /\ output' = output
           ELSE \/ result'.status = "EVALUATION_ERROR" /\ pc' = "done"
                \/ /\ Len(output') = Len(output) - op.degree + 1
                   /\ stack' = Pop(stack)

C16_Nearer == StepsLeft' < StepsLeft

C16_Total == []C16_NoViolation /\ [][C16_Evaluation /\ C16_Nearer]_vars

\* "1/" or the like: a binary operator evaluated on one value
C16_Witness ==
  /\ pc = "done"
  /\ Fails(result, "EXPECTED_MORE_ARGUMENTS")
  /\ stack # <<>>
  /\ Top(stack).op.degree = 2
  /\ Len(output) = 1

(***************************************************************************)
(* SpecConstant: a left operand, a sign and a right operand, with or       *)
(* without spaces around the sign.  The left operand is a constant, a      *)
(* number with a postfix operator, a constant in parentheses or a number;  *)
(* the right operand is a number or a constant.                            *)
(***************************************************************************)
ConstantValues ==
  { <<<<"e">>, e_double>>, <<<<"p", "i">>, pi_double>>, <<<<"t", "a", "u">>, tau_double>> }

Constants == {c[1] : c \in ConstantValues}

PostfixForms == { <<"2", "%">>, <<"2", "x">> }

ClosedValues ==
  {<<<<"(">> \o c[1] \o <<")">>, c[2]>> : c \in ConstantValues} \cup {<<<<"2">>, Q(2)>>}

ClosedForms == {c[1] : c \in ClosedValues}

RightValues == ConstantValues \cup {<<<<"1">>, Q(1)>>}

Form(a, sign, b, space) == a \o space \o <<sign>> \o space \o b

FormsOf(lefts) ==
  {Form(a, sign, b[1], space) :
     a \in lefts, sign \in {"+", "-"}, b \in RightValues, space \in {<<>>, <<" ">>}}

InitConstant ==
  InitWith(FormsOf(Constants \cup PostfixForms \cup ClosedForms), {NaN, Q(3)}, {TRUE})

SpecConstant == InitConstant /\ [][Next]_vars

\* the expression is a left operand of lefts, a sign and a right operand
IsFormOf(lefts) == expression \in FormsOf(lefts)

IsSyntaxError(r) == r.status = "PARSING_ERROR" /\ r.parsing_error = "SYNTAX_ERROR"

\* the token read in the step is a sign that follows a constant or a postfix
\* operator
SignAfterOperator ==
  /\ pc = "scan"
  /\ token.type = "OPERATOR"
  /\ token.op.type \in {"E", "PI", "TAU", "PERCENTAGE", "TIMES"}
  /\ token'.id \in {"PLUS", "MINUS"}

(***************************************************************************)
(* C17 as claimed: "<constant> + <number>" and "<number>% - <number>" end  *)
(* with two values and return SyntaxError.                                 *)
(***************************************************************************)
C17_Original ==
  (pc = "done" /\ IsFormOf(Constants \cup PostfixForms)) =>
    (IsSyntaxError(result) /\ Len(output) = 2)

(***************************************************************************)
(* C17: a "+" or "-" right after a constant or a postfix operator is the   *)
(* unary operator.  So a constant, a sign and an operand end with two      *)
(* values, the constant and the signed operand, and return SyntaxError; a  *)
(* number with "%" or "x", a sign and an operand do the same when there is *)
(* a current value, and return EvalError ExpectedCurrentValue when there   *)
(* is none; with the constant in parentheses, or a number on the left, the *)
(* sign is binary and the sum or difference is returned.                   *)
(***************************************************************************)
C17_SignIsUnary ==
  SignAfterOperator =>
    /\ left_is_edge
    /\ token'.op.type \in {"UNARY_PLUS", "UNARY_MINUS"}
    /\ token'.op.type = "UNARY_MINUS" <=> token'.string = <<"-">>

C17_Result ==
  pc = "done" =>
    /\ IsFormOf(Constants) =>
         /\ IsSyntaxError(result)
         /\ Len(output) = 2
         /\ \E c \in ConstantValues : output[1] = c[2]
    /\ (IsFormOf(PostfixForms) /\ current_value # NaN) =>
         /\ IsSyntaxError(result)
         /\ Len(output) = 2
         /\ output[1] = Q(2)
    /\ (IsFormOf(PostfixForms) /\ current_value = NaN) =>
         Fails(result, "EXPECTED_CURRENT_VALUE")
    /\ \A a \in ClosedValues, b \in RightValues, space \in {<<>>, <<" ">>} :
         /\ expression = Form(a[1], "+", b[1], space) => result = Success(Add(a[2], b[2]))
         /\ expression = Form(a[1], "-", b[1], space) => result = Success(Sub(a[2], b[2]))

C17_UnaryAfterConstant == []C17_Result /\ [][C17_SignIsUnary]_vars

\* "pi + 1": SyntaxError with pi and 1 left as two values
C17_Witness ==
  /\ pc = "done"
  /\ expression = <<"p", "i", " ", "+", " ", "1">>
  /\ IsSyntaxError(result)
  /\ output = <<pi_double, Q(1)>>

(***************************************************************************)
(* SpecOrder: numbers, binary operators, a postfix operator and            *)
(* parentheses as tokens in every order, a space between two tokens, with  *)
(* and without a current value.                                            *)
(***************************************************************************)
MaxOrderTokens == 3

OrderTokens ==
  { <<"1">>, <<"2">>, <<"5", "0">>, <<"+">>, <<"*">>, <<"%">>, <<"(">>, <<")">> }

RECURSIVE Spaced(_, _)
\* the sequences of at most n tokens with a space between two of them
Spaced(tokens, n) ==
  IF n = 0 THEN {<<>>}
  ELSE LET shorter == Spaced(tokens, n - 1)
       IN  shorter \cup tokens
             \cup {s \o <<" ">> \o t : s \in shorter \ {<<>>}, t \in tokens}

InitOrder ==
  InitWith(Spaced(OrderTokens, MaxOrderTokens)
             \cup {<<"%", "5", "0">>, <<"5", "0", "%">>},
           {NaN, Q(2)}, {TRUE})

SpecOrder == InitOrder /\ [][Next]_vars

OrderNumbers == { <<<<"1">>, Q(1)>>, <<<<"2">>, Q(2)>>, <<<<"5", "0">>, Q(50)>> }

Three(a, b, c) == a \o <<" ">> \o b \o <<" ">> \o c

(***************************************************************************)
(* C18: the order of operands and operators is not checked.  The return    *)
(* after the last reduction gives Success whenever one value is left,      *)
(* whatever the order of the tokens was.  Two numbers followed by "+" or   *)
(* "*", and "*" followed by two numbers, give the value of the infix       *)
(* expression ("1 2 +" gives 3, "* 1 2" gives 2); "%" before a number      *)
(* gives, with a current value c, the value it gives after the number.     *)
(***************************************************************************)
C18_OneValueLeft ==
  (pc = "drain" /\ stack = <<>> /\ Len(output) = 1) => result' = Success(output[1])

C18_Orders ==
  pc = "done" =>
    /\ \A a, b \in OrderNumbers :
         /\ expression \in {Three(a[1], b[1], <<"+">>), Three(a[1], <<"+">>, b[1])}
              => result = Success(Add(a[2], b[2]))
         /\ expression \in {Three(a[1], b[1], <<"*">>), Three(<<"*">>, a[1], b[1]),
                            Three(a[1], <<"*">>, b[1])}
              => result = Success(Mul(a[2], b[2]))
    /\ expression = <<"1", " ", "2", " ", "+">> => result = Success(Q(3))
    /\ expression = <<"*", " ", "1", " ", "2">> => result = Success(Q(2))
    /\ \A a \in OrderNumbers :
         (current_value # NaN
            /\ expression \in {<<"%">> \o a[1], <<"%", " ">> \o a[1],
                               a[1] \o <<"%">>, a[1] \o <<" ", "%">>})
           => result = Success(Div(Mul(a[2], current_value), Q(100)))

C18_OrderNotChecked == []C18_Orders /\ [][C18_OneValueLeft]_vars

\* "1 2 +" has returned Success 3
C18_Witness ==
  /\ pc = "done"
  /\ expression = <<"1", " ", "2", " ", "+">>
  /\ result = Success(Q(3))
  /\ token.op.type = "ADD"

====
